---- MODULE Spec2Model ----
(***************************************************************************)
(* banana-split: the plan validator (planner.py), the semantic atomizer    *)
(* (analysis/semantic_atomizer.py), the patch renderer (diff_parser.py)    *)
(* and the apply engine (apply.py), as state machines over a Diff.         *)
(*                                                                         *)
(* A hunk id "<path>::h<i>" is the pair <<path, i>>; an atomic change id   *)
(* "<path>::ac<k>" is the triple <<path, "ac", k>>.                        *)
(***************************************************************************)
EXTENDS Integers, Sequences, FiniteSets, TLC

VARIABLES
    diff,        \* plan.diff: [base_commit, target_commit, files]
    commits,     \* plan.suggested_commits
    supplied,    \* the commit list as handed to the validator (history)
    vresult,     \* outcome of _validate_and_order_plan ("pending" before the call)
    checked,     \* plan.invariants_checked
    atomized,    \* atomize_semantically has returned
    atoms,       \* the AtomicChange list atomize_semantically returned
    dry_run,     \* config.dry_run
    ap,          \* apply_plan: its position, locals and the exception in flight
    repo,        \* the git repository: current ref, branches, index, commits
    calls,       \* the repository operations invoked so far, with their results
    summary,     \* the dry-run summary and the warnings logged
    topo,        \* one call of _topological_sort: nodes, edges and what it returned
    reparsed,    \* parse_unified_diff(render_partial_diff(diff, all ids))
    run,         \* cli.main and run_split: config, git_diff, position, exception, exit status
    git,         \* one call of _run_git: the command, what git did, what was raised
    rendered     \* one call of render_partial_diff: the ids passed and the text returned

planVars == <<diff, commits, supplied, vresult, checked>>
atomVars == <<atomized, atoms>>
applyVars == <<dry_run, ap, repo, calls, summary>>
pureVars == <<topo, reparsed, run, git, rendered>>
vars == <<diff, commits, supplied, vresult, checked, atomized, atoms,
          dry_run, ap, repo, calls, summary, topo, reparsed, run, git, rendered>>

\* Python's None
None == "None"

----------------------------------------------------------------------------
(* Bounds *)

\* most hunks in one Diff handed to the validator
MaxPlanHunks == 3
\* most suggested commits in one plan handed to the validator
MaxCommits == 2
\* most hunks in one Diff handed to the atomizer
MaxAtomHunks == 3
\* most hunks in one Diff handed to apply_plan
MaxApplyHunks == 2
\* most nodes and most edges in one call of _topological_sort
MaxTopoNodes == 3
MaxTopoEdges == 2
\* most files in one raw diff of the round trip, and most hunks in one file
MaxRawFiles == 2
MaxRawHunks == 2

----------------------------------------------------------------------------
(* Sequence helpers *)

Range(s) == {s[i] : i \in 1..Len(s)}

RECURSIVE Flatten(_)
Flatten(ss) == IF ss = <<>> THEN <<>> ELSE Head(ss) \o Flatten(Tail(ss))

RECURSIVE SelectSeqBy(_, _)
\* list comprehension [x for x in s if x in keep]
SelectSeqBy(s, keep) ==
    IF s = <<>> THEN <<>>
    ELSE IF Head(s) \in keep THEN <<Head(s)>> \o SelectSeqBy(Tail(s), keep)
         ELSE SelectSeqBy(Tail(s), keep)

Min(S) == CHOOSE x \in S : \A y \in S : x <= y

----------------------------------------------------------------------------
(* Diff model (domain.py) *)

\* The hunk id the parser assigns: f"{file_path}::h{hunk_index}"
HunkId(path, i) == <<path, i>>

\* A DiffHunk: id, file_path, header (the ranges, which differ from hunk to
\* hunk of a file, here the ordinal, and the trailing text), lines and
\* meta["symbol"] (None when absent)
DiffHunk(path, i, symbol) ==
    [id |-> HunkId(path, i), file_path |-> path,
     header |-> <<"@@", i, symbol>>,
     lines |-> <<[line_type |-> "+", content |-> "x = 1"]>>,
     symbol |-> symbol]

\* A textual FileDiff whose hunks carry the symbols syms, ids h0, h1, ...
FileDiff(path_old, path_new, change_type, syms) ==
    [path_old |-> path_old, path_new |-> path_new,
     change_type |-> change_type, is_binary |-> FALSE,
     hunks |-> [i \in 1..Len(syms) |->
                  DiffHunk(IF path_new # None THEN path_new ELSE path_old,
                           i - 1, syms[i])]]

\* path = file.path_new or file.path_old or ""
FilePath(file) ==
    IF file.path_new # None /\ file.path_new # "" THEN file.path_new
    ELSE IF file.path_old # None /\ file.path_old # "" THEN file.path_old
    ELSE ""

\* [h.id for h in file.hunks]
FileHunkIds(file) == [i \in 1..Len(file.hunks) |-> file.hunks[i].id]

\* all_hunk_ids: hunk ids in (file order, hunk order), the canonical order
AllHunkIds(d) == Flatten([f \in 1..Len(d.files) |-> FileHunkIds(d.files[f])])

\* hunk_order[hid]: the 0-based canonical index (the last one written wins)
HunkOrder(d, hid) ==
    LET all == AllHunkIds(d)
        at == {i \in 1..Len(all) : all[i] = hid}
    IN  (CHOOSE i \in at : \A j \in at : j <= i) - 1

\* hunk_file[hid]: the path of the file holding the hunk
HunkFile(d, hid) ==
    LET at == {f \in 1..Len(d.files) : hid \in Range(FileHunkIds(d.files[f]))}
    IN  FilePath(d.files[CHOOSE f \in at : \A g \in at : g <= f])

----------------------------------------------------------------------------
(* Plan validator (planner.py, _validate_and_order_plan) *)

\* assigned_ids: every commit's hunk_ids, concatenated in commit order
AssignedIds(cs) == Flatten([c \in 1..Len(cs) |-> cs[c].hunk_ids])

\* key=lambda c: min(hunk_order[hid] for hid in c.hunk_ids)
CommitKey(d, c) == Min({HunkOrder(d, hid) : hid \in Range(c.hunk_ids)})

RECURSIVE InsertByKey(_, _, _)
InsertByKey(d, c, sorted) ==
    IF sorted = <<>> THEN <<c>>
    ELSE IF CommitKey(d, Head(sorted)) <= CommitKey(d, c)
         THEN <<Head(sorted)>> \o InsertByKey(d, c, Tail(sorted))
         ELSE <<c>> \o sorted

RECURSIVE SortCommitsFrom(_, _, _)
SortCommitsFrom(d, cs, acc) ==
    IF cs = <<>> THEN acc
    ELSE SortCommitsFrom(d, Tail(cs), InsertByKey(d, Head(cs), acc))

\* The commit list left in the supplied order
SortCommits_unsorted(d, cs) == cs

\* sorted(suggested_commits, key=...): a stable ascending sort
SortCommits(d, cs) == SortCommitsFrom(d, cs, <<>>)

\* The per-file sequence of canonical indices induced by a commit list
InducedSequence(d, cs, path) ==
    LET ids == AssignedIds(cs)
        mine == {hid \in Range(ids) : HunkFile(d, hid) = path}
        kept == SelectSeqBy(ids, mine)
    IN  [i \in 1..Len(kept) |-> HunkOrder(d, kept[i])]

\* expected = [hunk_order[hid] for hid in file_hunk_ids]
ExpectedSequence(d, file) ==
    LET ids == FileHunkIds(file)
    IN  [i \in 1..Len(ids) |-> HunkOrder(d, ids[i])]

\* ReordersSomeFile comparing what each file holds instead of the order:
\* sorted(sequence) != expected
ReordersSomeFile_unordered(d, cs) ==
    \E f \in 1..Len(d.files) :
        /\ FileHunkIds(d.files[f]) # <<>>
        /\ Range(InducedSequence(d, cs, FilePath(d.files[f])))
               # Range(ExpectedSequence(d, d.files[f]))

\* Some file's induced sequence differs from its native order
ReordersSomeFile(d, cs) ==
    \E f \in 1..Len(d.files) :
        /\ FileHunkIds(d.files[f]) # <<>>
        /\ InducedSequence(d, cs, FilePath(d.files[f]))
               # ExpectedSequence(d, d.files[f])

\* The first three checks (planner.py:119-135): the PlanValidationError they
\* raise, or "passed"
CoverageChecks(d, cs) ==
    LET assigned == AssignedIds(cs)
        all == AllHunkIds(d)
    IN  IF \E i \in 1..Len(assigned) : assigned[i] \notin Range(all)
        THEN "unknown_hunk"
        ELSE IF Range(assigned) # Range(all)
        THEN "not_covered"
        ELSE IF Len(assigned) # Cardinality(Range(assigned))
        THEN "multiple_commits"
        ELSE "passed"

\* min() of the sort key raises ValueError on a commit without hunks
SortRaises(cs) == \E c \in 1..Len(cs) : cs[c].hunk_ids = <<>>

\* ValidateOutcome returning right after the coverage comparison: the
\* duplicate check, the sort and the per-file order check are never reached
ValidateOutcome_stops_after_coverage(d, cs) ==
    IF CoverageChecks(d, cs) \in {"unknown_hunk", "not_covered"}
    THEN CoverageChecks(d, cs)
    ELSE "ok"

\* The outcome of _validate_and_order_plan, in the order of its checks:
\* "ok", or the PlanValidationError raised, or the ValueError of min() over
\* a commit without hunks.
ValidateOutcome(d, cs) ==
    IF CoverageChecks(d, cs) # "passed" THEN CoverageChecks(d, cs)
    ELSE IF SortRaises(cs) THEN "ValueError"
    ELSE IF ReordersSomeFile(d, SortCommits(d, cs)) THEN "reorders"
    ELSE "ok"

\* plan.suggested_commits when _validate_and_order_plan exits: the sorted
\* list is assigned once the three coverage checks have passed and every
\* key could be computed, before the per-file order check.
ValidatedCommits(d, cs) ==
    IF CoverageChecks(d, cs) = "passed" /\ ~SortRaises(cs)
    THEN SortCommits(d, cs)
    ELSE cs

----------------------------------------------------------------------------
(* Inputs of the validator *)

TestPath == "tests/test_service.py"
SourcePath == "service.py"

\* A file with n hunks and no symbol information
PlainFile(path, n) == FileDiff(path, path, "modify", [i \in 1..n |-> None])

\* File lists over the two paths, in either file order, a file possibly
\* without hunks, of at most max hunks together
FileListsUpTo(max) ==
    LET one == {<<PlainFile(p, n)>> : p \in {TestPath, SourcePath}, n \in 0..max}
        two == {<<PlainFile(p[1], n), PlainFile(p[2], m)>> :
                   p \in {<<TestPath, SourcePath>>, <<SourcePath, TestPath>>},
                   n \in 1..max, m \in 1..max}
    IN  {x \in one \cup two \cup {<<>>} :
            Len(Flatten([f \in 1..Len(x) |-> FileHunkIds(x[f])])) <= max}

BaseId == "aaaaaaaaaa"
TargetId == "bbbbbbbbbb"

\* The Diffs handed to the validator
PlanDiffs ==
    {[base_commit |-> BaseId, target_commit |-> TargetId, files |-> fs] :
        fs \in FileListsUpTo(MaxPlanHunks)}

\* A hunk id no Diff holds
UnknownHunk == HunkId("ghost.py", 0)

\* A SuggestedCommit: its id (here its position in the supplied list), title,
\* body and hunk_ids
SuggestedCommit(id, hunk_ids) ==
    [id |-> id, title |-> <<"Atomic change", id>>, body |-> None, hunk_ids |-> hunk_ids]

\* The ways to cut a list of n items into k consecutive parts (a part may be
\* empty): the end position of each part
CutsInto(n, k) ==
    {c \in [1..k -> 0..n] :
        /\ \A i \in 1..(k - 1) : c[i] <= c[i + 1]
        /\ c[k] = n}

\* Assignment sequences of at most maxlen ids over the Diff's hunk ids and
\* one unknown id
AssignmentSeqsUpTo(d, maxlen) ==
    LET pool == Range(AllHunkIds(d)) \cup {UnknownHunk}
    IN  UNION {[1..n -> pool] : n \in 0..maxlen}

\* The assignments offered to the validator: at most one id more than the
\* Diff has hunks
AssignmentSeqs(d) == AssignmentSeqsUpTo(d, Len(AllHunkIds(d)) + 1)

\* The ways to cut n assigned ids into at most MaxCommits commits (a commit
\* may be empty): the end position of each commit
Cuts(n) == UNION {CutsInto(n, k) : k \in 1..MaxCommits}

\* The commit list holding the ids s cut at c
CutCommits(s, c) ==
    [i \in 1..Len(c) |->
        SuggestedCommit(i, SubSeq(s, (IF i = 1 THEN 0 ELSE c[i - 1]) + 1, c[i]))]

\* No exception
NoError == <<>>

\* original_ref before get_current_ref() has returned
NoRef == <<>>

\* The ref checked out when apply_plan is called
StartRef == <<"feature/start">>

\* _topological_sort not called
IdleTopo == topo = [nodes |-> <<>>, edges |-> {}, called |-> FALSE, result |-> <<>>]

\* render_partial_diff not called on its own
IdleRender == rendered = [called |-> FALSE, hunk_ids |-> <<>>, text |-> <<>>]

\* The render/parse round trip not made
IdleRoundTrip == reparsed = [called |-> FALSE, files |-> <<>>] /\ IdleRender

\* cli.main not called
IdleRun ==
    run = [pc |-> "idle", use_staged |-> FALSE, use_ai |-> FALSE, raw |-> <<>>,
           base |-> None, target |-> None, atomic_changes |-> <<>>,
           error |-> NoError, exit |-> -1, stderr |-> <<>>]

\* _run_git not called
IdleGit ==
    git = [called |-> FALSE, args |-> <<>>, returncode |-> 0, stderr |-> "",
           oserror |-> None, raised |-> NoError, completed |-> FALSE]

IdlePure == IdleTopo /\ IdleRoundTrip /\ IdleRun /\ IdleGit

\* apply_plan not running
IdleApply ==
    /\ dry_run = FALSE
    /\ ap = [pc |-> "idle", cidx |-> 0, patch |-> <<>>, original_ref |-> NoRef,
             branch_created |-> FALSE, branch_checked_out |-> FALSE,
             todo |-> <<>>, error |-> NoError, raised |-> NoError]
    /\ repo = [current_ref |-> StartRef, branches |-> {}, index |-> <<>>, commits |-> <<>>]
    /\ calls = <<>>
    /\ summary = <<>>

InitPlan ==
    /\ diff \in PlanDiffs
    /\ \/ commits = <<>>
       \/ \E s \in AssignmentSeqs(diff) : \E c \in Cuts(Len(s)) :
              commits = CutCommits(s, c)
    /\ supplied = commits
    /\ vresult = "pending"
    /\ checked = FALSE
    /\ atomized = FALSE
    /\ atoms = <<>>
    /\ IdleApply
    /\ IdlePure

\* _validate_and_order_plan(plan), and plan.invariants_checked = True when
\* it returns (build_plan)
Validate ==
    /\ vresult = "pending"
    /\ vresult' = ValidateOutcome(diff, commits)
    /\ commits' = ValidatedCommits(diff, commits)
    /\ checked' = (ValidateOutcome(diff, commits) = "ok")
    /\ UNCHANGED <<diff, supplied>>
    /\ UNCHANGED atomVars
    /\ UNCHANGED pureVars
    /\ UNCHANGED applyVars

NextPlan == Validate

SpecPlan == InitPlan /\ [][NextPlan]_vars

----------------------------------------------------------------------------
(* Semantic atomizer (analysis/semantic_atomizer.py) *)

UtilPath == "util.py"
AtomPaths == {TestPath, SourcePath, UtilPath}

\* _is_test_path(path), evaluated on the paths of the model
IsTestPath(path) == path = TestPath

\* _module_key(path): the lower-cased stem without a leading "test_" or a
\* trailing "_test", evaluated on the paths of the model
ModuleKey(path) ==
    IF path \in {TestPath, SourcePath} THEN "service"
    ELSE IF path = UtilPath THEN "util"
    ELSE None

\* detect_language(path): every path of the model ends in ".py"
DetectLanguage(path) == IF path = "" THEN None ELSE "python"

\* meta["symbol"] values: absent, whitespace only, and two spellings of one name
Symbols == {None, " ", "def compute", "Def  Compute"}

\* meta_symbol.strip() if it is a non-blank string, else None
StripSymbol(symbol) == IF symbol \in {None, " "} THEN None ELSE symbol

\* _normalize_symbol(symbol): whitespace collapsed, lower-cased
NormalizeSymbol(symbol) ==
    IF symbol \in {None, ""} THEN ""
    ELSE IF symbol = " " THEN ""
    ELSE IF symbol \in {"def compute", "Def  Compute"} THEN "def compute"
    ELSE symbol

\* _build_hunk_order(diff)[hid]
BuildHunkOrder(d, hid) == HunkOrder(d, hid)

\* The grouping keys of a hunk list in order of first appearance
RECURSIVE KeyOrder(_, _)
KeyOrder(hunks, seen) ==
    IF hunks = <<>> THEN <<>>
    ELSE LET key == StripSymbol(Head(hunks).symbol)
         IN  IF key \in seen THEN KeyOrder(Tail(hunks), seen)
             ELSE <<key>> \o KeyOrder(Tail(hunks), seen \cup {key})

\* The hunks of the list whose grouping key is key, in list order
RECURSIVE HunksOfKey(_, _)
HunksOfKey(hunks, key) ==
    IF hunks = <<>> THEN <<>>
    ELSE IF StripSymbol(Head(hunks).symbol) = key
         THEN <<Head(hunks)>> \o HunksOfKey(Tail(hunks), key)
         ELSE HunksOfKey(Tail(hunks), key)

\* _group_hunks_by_symbol keeping only the latest hunk of each key:
\* groups[symbol] = [hunk] in place of groups[symbol].append(hunk)
GroupHunksBySymbol_overwrite(hunks) ==
    LET order == KeyOrder(hunks, {})
    IN  [k \in 1..Len(order) |->
            [symbol |-> order[k],
             hunks |-> LET all == HunksOfKey(hunks, order[k])
                       IN  <<all[Len(all)]>>]]

\* _group_hunks_by_symbol(hunks): one group per key, keys in order of first
\* appearance, each group holding all the hunks of its key in list order
GroupHunksBySymbol(hunks) ==
    LET order == KeyOrder(hunks, {})
    IN  [k \in 1..Len(order) |->
            [symbol |-> order[k], hunks |-> HunksOfKey(hunks, order[k])]]

\* _base_tags_for_path(path)
BaseTagsForPath(path) ==
    (IF DetectLanguage(path) # None THEN {<<DetectLanguage(path)>>} ELSE {})
        \cup (IF IsTestPath(path) THEN {<<"test">>} ELSE {})

\* The _SemanticNode list _build_nodes makes of one file (file_nodes)
FileNodes(d, f) ==
    LET file == d.files[f]
        path == FilePath(file)
        groups == GroupHunksBySymbol(file.hunks)
    IN  IF file.hunks = <<>> \/ path = "" THEN <<>>
        ELSE [idx \in 1..Len(groups) |->
                LET symbol == groups[idx].symbol
                    hunk_ids == [i \in 1..Len(groups[idx].hunks) |-> groups[idx].hunks[i].id]
                IN  [id |-> <<path, "ac", idx - 1>>,
                     file_path |-> path,
                     symbol |-> symbol,
                     hunk_ids |-> hunk_ids,
                     tags |-> BaseTagsForPath(path) \cup {<<"path", path>>}
                                \cup (IF symbol # None
                                      THEN {<<"symbol", NormalizeSymbol(symbol)>>} ELSE {})
                                \cup (IF ModuleKey(path) # None
                                      THEN {<<"module", ModuleKey(path)>>} ELSE {}),
                     summary |-> <<"Changes in", path, symbol>>,
                     first_order |-> Min({BuildHunkOrder(d, hid) : hid \in Range(hunk_ids)})]]

\* nodes, in file order then group order
BuildNodes(d) == Flatten([f \in 1..Len(d.files) |-> FileNodes(d, f)])

\* by_file[path]: the node list of the last file with that path
ByFile(d, path) ==
    LET at == {f \in 1..Len(d.files) :
                  /\ d.files[f].hunks # <<>>
                  /\ FilePath(d.files[f]) = path}
    IN  IF at = {} \/ path = "" THEN <<>>
        ELSE FileNodes(d, CHOOSE f \in at : \A g \in at : g <= f)

RECURSIVE SelectNodes(_, _)
SelectNodes(nodes, keep) ==
    IF nodes = <<>> THEN <<>>
    ELSE IF Head(nodes) \in keep THEN <<Head(nodes)>> \o SelectNodes(Tail(nodes), keep)
         ELSE SelectNodes(Tail(nodes), keep)

\* by_symbol.get(key, [])
BySymbol(nodes, key) ==
    SelectNodes(nodes, {n \in Range(nodes) :
                           n.symbol # None /\ NormalizeSymbol(n.symbol) = key /\ key # ""})

\* by_module.get(key, [])
ByModule(nodes, key) ==
    SelectNodes(nodes, {n \in Range(nodes) :
                           ModuleKey(n.file_path) # None /\ ModuleKey(n.file_path) = key})

\* linked_sources taking the symbol matches and the module matches together
LinkedSources_symbol_and_module(nodes, node) ==
    {c.id : c \in {x \in Range(nodes) :
                      /\ x.id # node.id
                      /\ <<"test">> \notin x.tags
                      /\ \/ /\ node.symbol # None /\ node.symbol # ""
                            /\ x \in Range(BySymbol(nodes, NormalizeSymbol(node.symbol)))
                         \/ /\ ModuleKey(node.file_path) # None
                            /\ x \in Range(ByModule(nodes, ModuleKey(node.file_path)))}}

\* linked_sources taking test-tagged candidates as well
LinkedSources_any_candidate(nodes, node) ==
    LET bySymbol ==
            IF node.symbol # None /\ node.symbol # ""
            THEN {c.id : c \in {x \in Range(BySymbol(nodes, NormalizeSymbol(node.symbol))) :
                                   x.id # node.id}}
            ELSE {}
        byModule ==
            IF ModuleKey(node.file_path) # None
            THEN {c.id : c \in {x \in Range(ByModule(nodes, ModuleKey(node.file_path))) :
                                   x.id # node.id}}
            ELSE {}
    IN  IF bySymbol # {} THEN bySymbol ELSE byModule

\* linked_sources of one test-tagged node
LinkedSources(nodes, node) ==
    LET bySymbol ==
            IF node.symbol # None /\ node.symbol # ""
            THEN {c.id : c \in {x \in Range(BySymbol(nodes, NormalizeSymbol(node.symbol))) :
                                   x.id # node.id /\ <<"test">> \notin x.tags}}
            ELSE {}
        byModule ==
            IF ModuleKey(node.file_path) # None
            THEN {c.id : c \in {x \in Range(ByModule(nodes, ModuleKey(node.file_path))) :
                                   x.id # node.id /\ <<"test">> \notin x.tags}}
            ELSE {}
    IN  IF bySymbol # {} THEN bySymbol ELSE byModule

\* _build_dependencies: the edges as pairs <<src id, dst id>>
BuildDependencies(d) ==
    LET nodes == BuildNodes(d)
        paths == {FilePath(d.files[f]) : f \in 1..Len(d.files)}
        intra == UNION {{<<ByFile(d, p)[i].id, ByFile(d, p)[i + 1].id>> :
                            i \in 1..(Len(ByFile(d, p)) - 1)} : p \in paths}
        tests == {n \in Range(nodes) : <<"test">> \in n.tags}
        cross == UNION {{<<src, n.id>> : src \in LinkedSources(nodes, n)} : n \in tests}
    IN  intra \cup cross

\* node_by_id[id]: the last node with that id
NodeById(nodes, id) ==
    LET at == {i \in 1..Len(nodes) : nodes[i].id = id}
    IN  nodes[CHOOSE i \in at : \A j \in at : j <= i]

\* The distinct ids of a node list in order of first appearance (dict order)
RECURSIVE IdOrder(_, _)
IdOrder(nodes, seen) ==
    IF nodes = <<>> THEN <<>>
    ELSE IF Head(nodes).id \in seen THEN IdOrder(Tail(nodes), seen)
         ELSE <<Head(nodes).id>> \o IdOrder(Tail(nodes), seen \cup {Head(nodes).id})

RECURSIVE InsertById(_, _, _)
InsertById(nodes, id, sorted) ==
    IF sorted = <<>> THEN <<id>>
    ELSE IF NodeById(nodes, Head(sorted)).first_order <= NodeById(nodes, id).first_order
         THEN <<Head(sorted)>> \o InsertById(nodes, id, Tail(sorted))
         ELSE <<id>> \o sorted

RECURSIVE SortIdsFrom(_, _, _)
SortIdsFrom(nodes, ids, acc) ==
    IF ids = <<>> THEN acc
    ELSE SortIdsFrom(nodes, Tail(ids), InsertById(nodes, Head(ids), acc))

\* The ready list left as it is, in place of the sort by first_order
SortIds_unsorted(nodes, ids) == ids

\* sorted(ids, key=lambda nid: node_by_id[nid].first_order), stable
SortIds(nodes, ids) == SortIdsFrom(nodes, ids, <<>>)

\* node_by_id[x].first_order if x in node_by_id else 0
SuccessorKey(nodes, x) ==
    IF \E i \in 1..Len(nodes) : nodes[i].id = x
    THEN NodeById(nodes, x).first_order ELSE 0

\* sorted(edges.get(nid, set()), key=...): a set of ids as a list ordered by
\* that key
RECURSIVE SetToSortedIds(_, _)
SetToSortedIds(nodes, ids) ==
    IF ids = {} THEN <<>>
    ELSE LET least == CHOOSE x \in ids :
                 \A y \in ids : SuccessorKey(nodes, x) <= SuccessorKey(nodes, y)
         IN  <<least>> \o SetToSortedIds(nodes, ids \ {least})

\* One pass over the successors of the popped node: decrement, append the
\* ones that reach zero
RECURSIVE ReleaseSuccessors(_, _, _)
ReleaseSuccessors(dsts, indegree, ready) ==
    IF dsts = <<>> THEN [indegree |-> indegree, ready |-> ready]
    ELSE LET dst == Head(dsts)
         IN  IF dst \notin DOMAIN indegree
             THEN ReleaseSuccessors(Tail(dsts), indegree, ready)
             ELSE LET lower == [indegree EXCEPT ![dst] = @ - 1]
                  IN  ReleaseSuccessors(Tail(dsts), lower,
                          IF lower[dst] = 0 THEN Append(ready, dst) ELSE ready)

\* The while loop of _topological_sort
RECURSIVE TopoLoop(_, _, _, _, _)
TopoLoop(nodes, edges, ready, indegree, ordered_ids) ==
    IF ready = <<>> THEN ordered_ids
    ELSE LET nid == Head(ready)
             dsts == SetToSortedIds(nodes, {e[2] : e \in {x \in edges : x[1] = nid}})
             step == ReleaseSuccessors(dsts, indegree, Tail(ready))
         IN  TopoLoop(nodes, edges, SortIds(nodes, step.ready), step.indegree,
                      Append(ordered_ids, nid))

RECURSIVE InsertNode(_, _)
InsertNode(n, sorted) ==
    IF sorted = <<>> THEN <<n>>
    ELSE IF Head(sorted).first_order <= n.first_order
         THEN <<Head(sorted)>> \o InsertNode(n, Tail(sorted))
         ELSE <<n>> \o sorted

RECURSIVE SortNodesFrom(_, _)
SortNodesFrom(nodes, acc) ==
    IF nodes = <<>> THEN acc
    ELSE SortNodesFrom(Tail(nodes), InsertNode(Head(nodes), acc))

\* sorted(nodes, key=lambda n: n.first_order), stable
SortNodes(nodes) == SortNodesFrom(nodes, <<>>)

\* ordered_ids after the topological pass
TopoOrderedIds(nodes, edges) ==
    LET ids == IdOrder(nodes, {})
        indegree == [id \in Range(ids) |->
                        Cardinality({e \in edges : e[2] = id /\ e[1] \in Range(ids)})]
        ready == SortIds(nodes, SelectSeqBy(ids, {id \in Range(ids) : indegree[id] = 0}))
    IN  TopoLoop(nodes, edges, ready, indegree, <<>>)

\* _topological_sort returning the first_order sort whatever the edges are
TopologicalSort_ignores_edges(nodes, edges) == SortNodes(nodes)

\* _topological_sort returning the topological pass without the length check
TopologicalSort_no_fallback(nodes, edges) ==
    LET ordered_ids == TopoOrderedIds(nodes, edges)
    IN  [i \in 1..Len(ordered_ids) |-> NodeById(nodes, ordered_ids[i])]

\* _topological_sort(nodes, edges)
TopologicalSort(nodes, edges) ==
    LET ordered_ids == TopoOrderedIds(nodes, edges)
    IN  IF Len(ordered_ids) # Len(nodes) THEN SortNodes(nodes)
        ELSE [i \in 1..Len(ordered_ids) |-> NodeById(nodes, ordered_ids[i])]

\* An AtomicChange
AtomicChange(node) ==
    [id |-> node.id, hunk_ids |-> node.hunk_ids, tags |-> node.tags,
     summary |-> node.summary]

\* atomize_semantically numbering the atomic changes by their position
\* in the output
AtomizeSemantically_ids_by_position(d) ==
    LET nodes == BuildNodes(d)
        ordered == TopologicalSort(nodes, BuildDependencies(d))
    IN  IF nodes = <<>> THEN <<>>
        ELSE [i \in 1..Len(ordered) |->
                [AtomicChange(ordered[i]) EXCEPT !.id = <<ordered[i].file_path, "ac", i - 1>>]]

\* atomize_semantically(diff)
AtomizeSemantically(d) ==
    LET nodes == BuildNodes(d)
        ordered == TopologicalSort(nodes, BuildDependencies(d))
    IN  IF nodes = <<>> THEN <<>>
        ELSE [i \in 1..Len(ordered) |-> AtomicChange(ordered[i])]

----------------------------------------------------------------------------
(* Patch renderer (diff_parser.py, render_partial_diff) *)

\* a or b, for optional strings
OrElse(a, b) == IF a # None /\ a # "" THEN a ELSE b

\* [h for h in file.hunks if h.id in include_ids]
RECURSIVE SelectedHunks(_, _)
SelectedHunks(hunks, include_ids) ==
    IF hunks = <<>> THEN <<>>
    ELSE IF Head(hunks).id \in include_ids
         THEN <<Head(hunks)>> \o SelectedHunks(Tail(hunks), include_ids)
         ELSE SelectedHunks(Tail(hunks), include_ids)

\* The section rendered with both labels naming the file, whatever its
\* change type
RenderSection_named_labels(file, selected) ==
    LET path_old == OrElse(file.path_old, OrElse(file.path_new, "unknown"))
        path_new == OrElse(file.path_new, OrElse(file.path_old, "unknown"))
    IN  [git_line |-> <<"diff --git", <<"a/", path_old>>, <<"b/", path_new>>>>,
         old_label |-> <<"a/", path_old>>,
         new_label |-> <<"b/", path_new>>,
         hunks |-> [i \in 1..Len(selected) |->
                      [header |-> selected[i].header, lines |-> selected[i].lines]]]

\* The section rendered for one file: its "diff --git" line, its "---" and
\* "+++" labels, and the selected hunks' headers and lines, reused as they are
RenderSection(file, selected) ==
    LET path_old == OrElse(file.path_old, OrElse(file.path_new, "unknown"))
        path_new == OrElse(file.path_new, OrElse(file.path_old, "unknown"))
    IN  [git_line |-> <<"diff --git", <<"a/", path_old>>, <<"b/", path_new>>>>,
         old_label |-> IF file.change_type = "add" THEN <<"/dev/null">>
                       ELSE <<"a/", path_old>>,
         new_label |-> IF file.change_type = "delete" THEN <<"/dev/null">>
                       ELSE <<"b/", path_new>>,
         hunks |-> [i \in 1..Len(selected) |->
                      [header |-> selected[i].header, lines |-> selected[i].lines]]]

\* render_partial_diff keeping only the first selected hunk of each file
RenderPartialDiff_first_hunk_only(d, hunk_ids) ==
    IF Range(hunk_ids) = {} THEN <<>>
    ELSE Flatten([f \in 1..Len(d.files) |->
            LET selected == SelectedHunks(d.files[f].hunks, Range(hunk_ids))
            IN  IF selected = <<>> THEN <<>>
                ELSE <<RenderSection(d.files[f], <<selected[1]>>)>>])

\* render_partial_diff(diff, hunk_ids): the sections of the patch; <<>> is
\* the empty string
RenderPartialDiff(d, hunk_ids) ==
    IF Range(hunk_ids) = {} THEN <<>>
    ELSE Flatten([f \in 1..Len(d.files) |->
            LET selected == SelectedHunks(d.files[f].hunks, Range(hunk_ids))
            IN  IF selected = <<>> THEN <<>>
                ELSE <<RenderSection(d.files[f], selected)>>])

\* The blank test never skipping
IsBlank_never(patch) == FALSE

\* not patch.strip()
IsBlank(patch) == patch = <<>>

\* The text of a rendered patch as its list of lines ("\n".join(output)):
\* per section the "diff --git" line, the "--- " and "+++ " lines, then each
\* hunk's header and its lines as line_type followed by content.  A line is
\* a tuple whose first element is the text the parser tests with startswith.
PatchLines(patch) ==
    Flatten([s \in 1..Len(patch) |->
        <<patch[s].git_line, <<"---", patch[s].old_label>>, <<"+++", patch[s].new_label>>>>
        \o Flatten([h \in 1..Len(patch[s].hunks) |->
              <<patch[s].hunks[h].header>>
              \o [k \in 1..Len(patch[s].hunks[h].lines) |->
                    <<patch[s].hunks[h].lines[k].line_type,
                      patch[s].hunks[h].lines[k].content>>]])])

----------------------------------------------------------------------------
(* Unified diff parser (diff_parser.py, parse_unified_diff) *)

\* line.startswith(prefix)
StartsWith(line, prefix) == Len(line) >= 1 /\ line[1] = prefix

\* The index of the first "diff --git" line at or after i, Len(lines) + 1 if none
RECURSIVE NextDiffHeader(_, _)
NextDiffHeader(lines, i) ==
    IF i > Len(lines) \/ StartsWith(lines[i], "diff --git") THEN i
    ELSE NextDiffHeader(lines, i + 1)

\* The text of a whole line: of a line written as one token, that token
WholeLine(line) == IF Len(line) = 1 THEN line[1] ELSE line

\* line.startswith("\\ No newline at end of file")
IsNoNewlineMarker(line) ==
    Len(line) >= 2 /\ line[1] = "\\" /\ line[2] = "No newline at end of file"

\* The body loop of _parse_hunk: the DiffLines read from index i on and the
\* index of the line that ended the hunk
RECURSIVE HunkBody(_, _, _)
HunkBody(lines, i, acc) ==
    IF i > Len(lines) \/ StartsWith(lines[i], "diff --git") \/ StartsWith(lines[i], "@@")
    THEN [diff_lines |-> acc, next |-> i]
    ELSE LET line == lines[i]
         IN  IF IsNoNewlineMarker(line) THEN HunkBody(lines, i + 1, acc)
             ELSE IF line = <<>> \/ line = <<"">>
             THEN HunkBody(lines, i + 1, Append(acc, [line_type |-> " ", content |-> ""]))
             ELSE IF line[1] \in {"+", "-", " "}
             THEN HunkBody(lines, i + 1,
                           Append(acc, [line_type |-> line[1], content |-> line[2]]))
             ELSE HunkBody(lines, i + 1,
                           Append(acc, [line_type |-> " ", content |-> WholeLine(line)]))

\* extract_symbol_name_from_hunk_header(header): the text after the ranges
HeaderSymbol(header) == IF Len(header) >= 3 THEN header[3] ELSE None

\* _parse_hunk(lines, start_index, file_path, hunk_index, language)
ParseHunk(lines, start_index, file_path, hunk_index) ==
    LET body == HunkBody(lines, start_index + 1, <<>>)
    IN  [hunk |-> [id |-> HunkId(file_path, hunk_index), file_path |-> file_path,
                   header |-> lines[start_index], lines |-> body.diff_lines,
                   symbol |-> HeaderSymbol(lines[start_index])],
         next |-> body.next]

\* The hunk loop of _parse_single_file_diff
RECURSIVE ParseHunks(_, _, _, _)
ParseHunks(lines, i, file_path, hunks) ==
    IF i > Len(lines) \/ StartsWith(lines[i], "diff --git")
    THEN [hunks |-> hunks, next |-> i]
    ELSE IF StartsWith(lines[i], "@@")
    THEN LET parsed == ParseHunk(lines, i, file_path, Len(hunks))
         IN  ParseHunks(lines, parsed.next, file_path, Append(hunks, parsed.hunk))
    ELSE ParseHunks(lines, i + 1, file_path, hunks)

\* The metadata loop of _parse_single_file_diff: what it has read when it
\* stops at index i, on a "--- " line, on the next "diff --git" line or at
\* the end of the text
RECURSIVE ScanMetadata(_, _, _)
ScanMetadata(lines, i, m) ==
    IF i > Len(lines) THEN [m EXCEPT !.next = i, !.stop = "end"]
    ELSE LET line == lines[i]
         IN  IF StartsWith(line, "diff --git") THEN [m EXCEPT !.next = i, !.stop = "diff"]
             ELSE IF StartsWith(line, "new file mode")
             THEN ScanMetadata(lines, i + 1, [m EXCEPT !.change_type = "add"])
             ELSE IF StartsWith(line, "deleted file mode")
             THEN ScanMetadata(lines, i + 1, [m EXCEPT !.change_type = "delete"])
             ELSE IF StartsWith(line, "rename from")
             THEN ScanMetadata(lines, i + 1,
                               [m EXCEPT !.change_type = "rename", !.rename_from = line[2]])
             ELSE IF StartsWith(line, "rename to")
             THEN ScanMetadata(lines, i + 1,
                               [m EXCEPT !.change_type = "rename", !.rename_to = line[2]])
             ELSE IF StartsWith(line, "Binary files") \/ StartsWith(line, "GIT binary patch")
             THEN ScanMetadata(lines, i + 1, [m EXCEPT !.is_binary = TRUE])
             ELSE IF StartsWith(line, "---") THEN [m EXCEPT !.next = i, !.stop = "header"]
             ELSE ScanMetadata(lines, i + 1, m)

\* A path read from a "--- " or "+++ " line: None for /dev/null, the text
\* after "a/" or "b/", else the text itself
LabelPath(label, prefix) ==
    IF label = <<"/dev/null">> THEN None
    ELSE IF Len(label) = 2 /\ label[1] = prefix THEN label[2]
    ELSE label[1]

\* _parse_single_file_diff(lines, start_index): the FileDiff (None for a
\* malformed "diff --git" line) and the next index
ParseSingleFileDiff(lines, start_index) ==
    LET header_line == lines[start_index]
    IN  IF Len(header_line) < 3
        THEN [file |-> None, next |-> NextDiffHeader(lines, start_index + 1)]
        ELSE
        LET m == ScanMetadata(lines, start_index + 1,
                     [change_type |-> "modify", is_binary |-> FALSE,
                      rename_from |-> None, rename_to |-> None,
                      next |-> start_index + 1, stop |-> "end"])
            path_old0 == IF m.rename_from # None THEN m.rename_from ELSE header_line[2][2]
            path_new0 == IF m.rename_to # None THEN m.rename_to ELSE header_line[3][2]
            i == m.next
            has_old == m.stop = "header"
            has_new == has_old /\ i + 1 <= Len(lines) /\ StartsWith(lines[i + 1], "+++")
            old_label == IF has_old THEN lines[i][2] ELSE <<>>
            new_label == IF has_new THEN lines[i + 1][2] ELSE <<>>
            after == i + (IF has_old THEN 1 ELSE 0) + (IF has_new THEN 1 ELSE 0)
            path_old == IF has_old THEN LabelPath(old_label, "a/") ELSE path_old0
            path_new == IF has_new THEN LabelPath(new_label, "b/") ELSE path_new0
            change_type == IF has_new /\ new_label = <<"/dev/null">> THEN "delete"
                           ELSE IF has_old /\ old_label = <<"/dev/null">> THEN "add"
                           ELSE m.change_type
            parsed == ParseHunks(lines, after, OrElse(path_new, OrElse(path_old, "")), <<>>)
        IN  IF m.stop = "diff"
            THEN [file |-> [path_old |-> header_line[2][2], path_new |-> header_line[3][2],
                            change_type |-> m.change_type, is_binary |-> m.is_binary,
                            hunks |-> <<>>],
                  next |-> m.next]
            ELSE IF m.is_binary
            THEN [file |-> [path_old |-> path_old0, path_new |-> path_new0,
                            change_type |-> m.change_type, is_binary |-> TRUE,
                            hunks |-> <<>>],
                  next |-> NextDiffHeader(lines, m.next)]
            ELSE [file |-> [path_old |-> path_old, path_new |-> path_new,
                            change_type |-> change_type, is_binary |-> FALSE,
                            hunks |-> parsed.hunks],
                  next |-> parsed.next]

\* The file loop of parse_unified_diff
RECURSIVE ParseFiles(_, _, _)
ParseFiles(lines, i, files) ==
    IF i > Len(lines) THEN files
    ELSE IF ~StartsWith(lines[i], "diff --git") THEN ParseFiles(lines, i + 1, files)
    ELSE LET one == ParseSingleFileDiff(lines, i)
         IN  ParseFiles(lines, one.next,
                        IF Len(lines[i]) < 3 THEN files ELSE Append(files, one.file))

\* str.splitlines() on the text of one source line: besides "\n" it breaks
\* at a form feed, and it takes a carriage return before the newline as
\* part of the line break
SplitContent(content) ==
    IF content = "a = 1\fb = 2" THEN <<"a = 1", "b = 2">>
    ELSE IF content = "b = 3\r" THEN <<"b = 3">>
    ELSE <<content>>

\* The lines str.splitlines() makes of one "\n"-terminated line of the text
SplitLine(line) ==
    IF Len(line) = 2 /\ line[1] \in {"+", "-", " "}
    THEN LET parts == SplitContent(line[2])
         IN  <<<<line[1], parts[1]>>>> \o [k \in 1..(Len(parts) - 1) |-> <<parts[k + 1]>>]
    ELSE <<line>>

\* raw_diff.splitlines(), raw_diff given as its "\n"-terminated lines
SplitLines(raw_diff) == Flatten([k \in 1..Len(raw_diff) |-> SplitLine(raw_diff[k])])

\* parse_unified_diff(raw_diff)
ParseUnifiedDiff(raw_diff) ==
    [base_commit |-> None, target_commit |-> None,
     files |-> ParseFiles(SplitLines(raw_diff), 1, <<>>)]

----------------------------------------------------------------------------
(* Apply engine (apply.py) *)

\* The whole id in place of target[:7]
Short7_whole_id(commit) == commit

\* target[:7]
Short7(commit) == IF commit = TargetId THEN "bbbbbbb" ELSE commit

\* branch_name = f"banana-split/split-{target[:7]}"
BranchName(target) == <<"banana-split/split-", Short7(target)>>

GitError(what) == <<"GitError", what>>
KeyboardInterrupt == <<"KeyboardInterrupt">>

\* What a repository operation can do: succeed, fail, or be interrupted by
\* the user while it blocks
Outcomes == {"ok", "GitError", "KeyboardInterrupt"}

\* The exception an unsuccessful operation raises
Raises(op, outcome) ==
    IF outcome = "KeyboardInterrupt" THEN KeyboardInterrupt ELSE GitError(op)

\* except Exception: KeyboardInterrupt derives from BaseException only
CaughtByExceptException(e) == e # NoError /\ e[1] # "KeyboardInterrupt"

\* _rollback_partial_apply deleting the branch before leaving it
RollbackSteps_delete_first(branch_created, branch_checked_out) ==
    (IF branch_created THEN <<"delete_branch">> ELSE <<>>)
        \o (IF branch_checked_out THEN <<"checkout">> ELSE <<>>)

\* _rollback_partial_apply with the branch deletion nested under
\* "if branch_checked_out"
RollbackSteps_delete_nested(branch_created, branch_checked_out) ==
    IF branch_checked_out
    THEN <<"checkout">> \o (IF branch_created THEN <<"delete_branch">> ELSE <<>>)
    ELSE <<>>

\* _rollback_partial_apply attempting both operations whatever the flags
RollbackSteps_unconditional(branch_created, branch_checked_out) ==
    <<"checkout", "delete_branch">>

\* _rollback_partial_apply: the operations it attempts, in order
RollbackSteps(branch_created, branch_checked_out) ==
    (IF branch_checked_out THEN <<"checkout">> ELSE <<>>)
        \o (IF branch_created THEN <<"delete_branch">> ELSE <<>>)

\* apply_plan's locals when exception e leaves the try block (apply.py:104-111):
\* a caught exception starts the rollback, any other propagates at once
AfterTryRaises(e) ==
    IF CaughtByExceptException(e)
    THEN LET todo == RollbackSteps(ap.branch_created, ap.branch_checked_out)
         IN  [ap EXCEPT !.error = e, !.todo = todo,
                        !.pc = IF todo = <<>> THEN "raised" ELSE "rollback",
                        !.raised = IF todo = <<>> THEN e ELSE NoError]
    ELSE [ap EXCEPT !.error = e, !.pc = "raised", !.raised = e]

\* The record of one repository operation
Call(op, args, result) == [op |-> op, args |-> args, result |-> result]

\* message = title, or title, blank line, body
CommitMessage(commit) ==
    IF commit.body # None /\ commit.body # ""
    THEN <<commit.title, "", commit.body>>
    ELSE <<commit.title>>

\* The dry-run log with the hunk count left out of each entry
DryRunSummary_without_counts(cs) ==
    <<<<"Dry run: would apply", Len(cs)>>>>
        \o [i \in 1..Len(cs) |-> <<"Commit", cs[i].id, cs[i].title>>]

\* The dry-run log (apply.py:41-48): the headline, then one entry per
\* suggested commit with its id, title and number of hunks
DryRunSummary(cs) ==
    <<<<"Dry run: would apply", Len(cs)>>>>
        \o [i \in 1..Len(cs) |-> <<"Commit", cs[i].id, cs[i].title, Len(cs[i].hunk_ids)>>]

\* The precondition testing the target commit only
MissingCommits_target_only(d) == d.target_commit \in {None, ""}

\* not base or not target (apply.py:54)
MissingCommits(d) == d.base_commit \in {None, ""} \/ d.target_commit \in {None, ""}

\* apply.py:40-58: the dry-run summary, or the base/target precondition
ApplyStart ==
    /\ ap.pc = "start"
    /\ IF dry_run
       THEN /\ summary' = DryRunSummary(commits)
            /\ ap' = [ap EXCEPT !.pc = "returned"]
       ELSE /\ summary' = summary
            /\ IF MissingCommits(diff)
               THEN ap' = [ap EXCEPT !.pc = "raised",
                                     !.error = GitError("cannot apply plan without both base and target commits"),
                                     !.raised = GitError("cannot apply plan without both base and target commits")]
               ELSE ap' = [ap EXCEPT !.pc = "ensure_repo_clean"]
    /\ UNCHANGED <<repo, calls, dry_run>>
    /\ UNCHANGED planVars
    /\ UNCHANGED atomVars
    /\ UNCHANGED pureVars

\* ensure_repo_clean() (apply.py:60), outside the try block
EnsureRepoClean ==
    /\ ap.pc = "ensure_repo_clean"
    /\ \E o \in Outcomes :
        /\ calls' = Append(calls, Call("ensure_repo_clean", <<>>, o))
        /\ ap' = IF o = "ok" THEN [ap EXCEPT !.pc = "get_current_ref"]
                 ELSE [ap EXCEPT !.pc = "raised",
                                 !.error = Raises("ensure_repo_clean", o),
                                 !.raised = Raises("ensure_repo_clean", o)]
    /\ UNCHANGED <<repo, summary, dry_run>>
    /\ UNCHANGED planVars
    /\ UNCHANGED atomVars
    /\ UNCHANGED pureVars

\* original_ref = get_current_ref() (apply.py:61), outside the try block
GetCurrentRef ==
    /\ ap.pc = "get_current_ref"
    /\ \E o \in Outcomes :
        /\ calls' = Append(calls, Call("get_current_ref", <<>>, o))
        /\ ap' = IF o = "ok"
                 THEN [ap EXCEPT !.pc = "create_branch", !.original_ref = repo.current_ref]
                 ELSE [ap EXCEPT !.pc = "raised",
                                 !.error = Raises("get_current_ref", o),
                                 !.raised = Raises("get_current_ref", o)]
    /\ UNCHANGED <<repo, summary, dry_run>>
    /\ UNCHANGED planVars
    /\ UNCHANGED atomVars
    /\ UNCHANGED pureVars

\* create_branch(branch_name, base); branch_created = True (apply.py:74-75).
\* git refuses to create a branch whose name exists.
CreateBranch ==
    /\ ap.pc = "create_branch"
    /\ \E o \in Outcomes :
        /\ o = "ok" => BranchName(diff.target_commit) \notin repo.branches
        /\ calls' = Append(calls, Call("create_branch",
                               <<BranchName(diff.target_commit), diff.base_commit>>, o))
        /\ IF o = "ok"
           THEN /\ repo' = [repo EXCEPT !.branches = @ \cup {BranchName(diff.target_commit)}]
                /\ ap' = [ap EXCEPT !.pc = "checkout", !.branch_created = TRUE]
           ELSE /\ repo' = repo
                /\ ap' = AfterTryRaises(Raises("create_branch", o))
    /\ UNCHANGED <<summary, dry_run>>
    /\ UNCHANGED planVars
    /\ UNCHANGED atomVars
    /\ UNCHANGED pureVars

\* checkout(branch_name); branch_checked_out = True (apply.py:76-77)
CheckoutBranch ==
    /\ ap.pc = "checkout"
    /\ \E o \in Outcomes :
        /\ calls' = Append(calls, Call("checkout", <<BranchName(diff.target_commit)>>, o))
        /\ IF o = "ok"
           THEN /\ repo' = [repo EXCEPT !.current_ref = BranchName(diff.target_commit)]
                /\ ap' = [ap EXCEPT !.pc = "loop", !.cidx = 1, !.branch_checked_out = TRUE]
           ELSE /\ repo' = repo
                /\ ap' = AfterTryRaises(Raises("checkout", o))
    /\ UNCHANGED <<summary, dry_run>>
    /\ UNCHANGED planVars
    /\ UNCHANGED atomVars
    /\ UNCHANGED pureVars

\* The head of the for loop (apply.py:79-87): the next suggested commit is
\* skipped when it has no hunks or renders to a blank patch, else its patch
\* is rendered; after the last commit the tree comparison follows
NextCommit ==
    /\ ap.pc = "loop"
    /\ IF ap.cidx > Len(commits)
       THEN /\ ap' = [ap EXCEPT !.pc = "trees_equal"]
            /\ summary' = summary
       ELSE LET suggested == commits[ap.cidx]
                patch == RenderPartialDiff(diff, suggested.hunk_ids)
            IN  IF suggested.hunk_ids = <<>>
                THEN /\ ap' = [ap EXCEPT !.cidx = @ + 1]
                     /\ summary' = summary
                ELSE IF IsBlank(patch)
                THEN /\ ap' = [ap EXCEPT !.cidx = @ + 1]
                     /\ summary' = Append(summary,
                            <<"Generated empty patch; skipping", suggested.id>>)
                ELSE /\ ap' = [ap EXCEPT !.pc = "apply_patch", !.patch = patch]
                     /\ summary' = summary
    /\ UNCHANGED <<repo, calls, dry_run>>
    /\ UNCHANGED planVars
    /\ UNCHANGED atomVars
    /\ UNCHANGED pureVars

\* apply_patch(patch, index_only=True) (apply.py:91)
ApplyPatch ==
    /\ ap.pc = "apply_patch"
    /\ \E o \in Outcomes :
        /\ calls' = Append(calls, Call("apply_patch", <<ap.patch, TRUE>>, o))
        /\ IF o = "ok"
           THEN /\ repo' = [repo EXCEPT !.index = Append(@, ap.patch)]
                /\ ap' = [ap EXCEPT !.pc = "create_commit"]
           ELSE /\ repo' = repo
                /\ ap' = AfterTryRaises(Raises("apply_patch", o))
    /\ UNCHANGED <<summary, dry_run>>
    /\ UNCHANGED planVars
    /\ UNCHANGED atomVars
    /\ UNCHANGED pureVars

\* create_commit(message) (apply.py:93-96)
CreateCommit ==
    /\ ap.pc = "create_commit"
    /\ \E o \in Outcomes :
        /\ calls' = Append(calls, Call("create_commit",
                               <<CommitMessage(commits[ap.cidx])>>, o))
        /\ IF o = "ok"
           THEN /\ repo' = [repo EXCEPT
                              !.commits = Append(@, [message |-> CommitMessage(commits[ap.cidx]),
                                                     patches |-> repo.index]),
                              !.index = <<>>]
                /\ ap' = [ap EXCEPT !.pc = "loop", !.cidx = @ + 1, !.patch = <<>>]
           ELSE /\ repo' = repo
                /\ ap' = AfterTryRaises(Raises("create_commit", o))
    /\ UNCHANGED <<summary, dry_run>>
    /\ UNCHANGED planVars
    /\ UNCHANGED atomVars
    /\ UNCHANGED pureVars

\* The test of the comparison accepting any answer
TreesEqualReturns_any_answer(o) == o \in {"equal", "differ"}

\* "if not trees_equal(target, "HEAD"): raise" (apply.py:99): apply_plan goes
\* on to return only when the comparison answered True
TreesEqualReturns(o) == o = "equal"

\* trees_equal(target, "HEAD") (apply.py:99-103): equal, different, failing
\* or interrupted
TreesEqual ==
    /\ ap.pc = "trees_equal"
    /\ \E o \in {"equal", "differ", "GitError", "KeyboardInterrupt"} :
        /\ calls' = Append(calls, Call("trees_equal", <<diff.target_commit, "HEAD">>, o))
        /\ ap' = IF TreesEqualReturns(o) THEN [ap EXCEPT !.pc = "returned"]
                 ELSE IF o = "differ"
                 THEN AfterTryRaises(GitError("final tree does not match original commit after applying plan"))
                 ELSE AfterTryRaises(Raises("trees_equal", o))
    /\ UNCHANGED <<repo, summary, dry_run>>
    /\ UNCHANGED planVars
    /\ UNCHANGED atomVars
    /\ UNCHANGED pureVars

\* A failing rollback operation ending the rollback with its own error
AfterRollbackStep_escalates(o) ==
    IF o = "KeyboardInterrupt"
    THEN [ap EXCEPT !.pc = "raised", !.raised = KeyboardInterrupt, !.todo = <<>>]
    ELSE IF o = "GitError"
    THEN [ap EXCEPT !.pc = "raised", !.raised = GitError(Head(ap.todo)), !.todo = <<>>]
    ELSE IF Tail(ap.todo) = <<>>
    THEN [ap EXCEPT !.pc = "raised", !.raised = ap.error, !.todo = <<>>]
    ELSE [ap EXCEPT !.todo = Tail(@)]

\* apply_plan's locals after one rollback operation: a GitError is logged
\* and the rollback goes on; after the last one the original error is
\* re-raised (apply.py:111); an interruption propagates at once
AfterRollbackStep(o) ==
    IF o = "KeyboardInterrupt"
    THEN [ap EXCEPT !.pc = "raised", !.raised = KeyboardInterrupt, !.todo = <<>>]
    ELSE IF Tail(ap.todo) = <<>>
    THEN [ap EXCEPT !.pc = "raised", !.raised = ap.error, !.todo = <<>>]
    ELSE [ap EXCEPT !.todo = Tail(@)]

\* checkout(original_ref) in _rollback_partial_apply (apply.py:131-139)
RollbackCheckout ==
    /\ ap.pc = "rollback"
    /\ Head(ap.todo) = "checkout"
    /\ \E o \in Outcomes :
        /\ calls' = Append(calls, Call("checkout", <<ap.original_ref>>, o))
        /\ repo' = IF o = "ok" THEN [repo EXCEPT !.current_ref = ap.original_ref] ELSE repo
        /\ summary' = IF o = "GitError"
                      THEN Append(summary, <<"Failed to return to original ref", ap.original_ref>>)
                      ELSE summary
        /\ ap' = AfterRollbackStep(o)
    /\ UNCHANGED dry_run
    /\ UNCHANGED planVars
    /\ UNCHANGED atomVars
    /\ UNCHANGED pureVars

\* delete_branch(branch_name, force=True) in _rollback_partial_apply
\* (apply.py:141-145)
RollbackDeleteBranch ==
    /\ ap.pc = "rollback"
    /\ Head(ap.todo) = "delete_branch"
    /\ \E o \in Outcomes :
        /\ calls' = Append(calls, Call("delete_branch",
                               <<BranchName(diff.target_commit), TRUE>>, o))
        /\ repo' = IF o = "ok"
                   THEN [repo EXCEPT !.branches = @ \ {BranchName(diff.target_commit)}]
                   ELSE repo
        /\ summary' = IF o = "GitError"
                      THEN Append(summary, <<"Failed to delete temporary branch",
                                             BranchName(diff.target_commit)>>)
                      ELSE summary
        /\ ap' = AfterRollbackStep(o)
    /\ UNCHANGED dry_run
    /\ UNCHANGED planVars
    /\ UNCHANGED atomVars
    /\ UNCHANGED pureVars

----------------------------------------------------------------------------
(* Inputs of the apply engine and its specification *)

\* Optional commit bodies
Bodies == {None, "why"}

\* The commit list cs with the body b on its first commit
WithBody(cs, b) ==
    [i \in 1..Len(cs) |-> IF i = 1 THEN [cs[i] EXCEPT !.body = b] ELSE cs[i]]

\* apply_plan(plan, config) is called with a plan build_plan validated, or
\* with a plan made by hand; the work branch may exist already
InitApply ==
    /\ \E fs \in FileListsUpTo(MaxApplyHunks) :
       \E b \in {BaseId, None} : \E tg \in {TargetId, None} :
           diff = [base_commit |-> b, target_commit |-> tg, files |-> fs]
    /\ \E b \in Bodies :
          \/ /\ commits = <<>>
             /\ checked = FALSE
          \/ /\ \E s \in AssignmentSeqsUpTo(diff, Len(AllHunkIds(diff))) :
                \E c \in Cuts(Len(s)) :
                    commits = WithBody(CutCommits(s, c), b)
             /\ checked = FALSE
          \/ /\ \E s \in AssignmentSeqs(diff) : \E c \in Cuts(Len(s)) :
                    /\ ValidateOutcome(diff, CutCommits(s, c)) = "ok"
                    /\ commits = WithBody(ValidatedCommits(diff, CutCommits(s, c)), b)
             /\ checked = TRUE
    /\ supplied = commits
    /\ vresult = IF checked THEN "ok" ELSE "skipped"
    /\ atomized = FALSE
    /\ atoms = <<>>
    /\ IdlePure
    /\ dry_run \in BOOLEAN
    /\ ap = [pc |-> "start", cidx |-> 0, patch |-> <<>>, original_ref |-> NoRef,
             branch_created |-> FALSE, branch_checked_out |-> FALSE,
             todo |-> <<>>, error |-> NoError, raised |-> NoError]
    /\ \E existing \in SUBSET {BranchName(TargetId)} :
           repo = [current_ref |-> StartRef, branches |-> existing,
                   index |-> <<>>, commits |-> <<>>]
    /\ calls = <<>>
    /\ summary = <<>>

NextApply ==
    \/ ApplyStart
    \/ EnsureRepoClean
    \/ GetCurrentRef
    \/ CreateBranch
    \/ CheckoutBranch
    \/ NextCommit
    \/ ApplyPatch
    \/ CreateCommit
    \/ TreesEqual
    \/ RollbackCheckout
    \/ RollbackDeleteBranch

SpecApply == InitApply /\ [][NextApply]_vars

----------------------------------------------------------------------------
(* Claims about the apply engine *)

\* The calls of one repository operation, in order
CallsOf(op) == SelectSeq(calls, LAMBDA c : c.op = op)

\* The operations _rollback_partial_apply invoked
IsRollbackCall(c) ==
    \/ c.op = "delete_branch"
    \/ c.op = "checkout" /\ c.args = <<ap.original_ref>>

\* No operation of the run was interrupted by the user
NotInterrupted == \A i \in 1..Len(calls) : calls[i].result # "KeyboardInterrupt"

\* C1: non-dry-run apply_plan is all-or-nothing: when a repository operation
\* fails after create_branch has succeeded and the rollback operations
\* succeed, apply_plan exits with the current ref being the pre-run ref and
\* the created branch deleted.
C1_AllOrNothing ==
    ( /\ ap.pc = "raised"
      /\ ap.branch_created
      /\ ap.error # NoError
      /\ ap.error[1] = "GitError"
      /\ \A i \in 1..Len(calls) : IsRollbackCall(calls[i]) => calls[i].result = "ok" )
    => /\ repo.current_ref = ap.original_ref
       /\ BranchName(diff.target_commit) \notin repo.branches

\* C1 witness: create_commit failed after an earlier commit had been made,
\* and both rollback operations succeeded
C1_Witness ==
    /\ ap.pc = "raised"
    /\ ap.error = GitError("create_commit")
    /\ Len(repo.commits) >= 1
    /\ Len(CallsOf("delete_branch")) = 1
    /\ \A i \in 1..Len(calls) : IsRollbackCall(calls[i]) => calls[i].result = "ok"

TreeMismatch == GitError("final tree does not match original commit after applying plan")

\* C2: when the tree comparison reports a difference, apply_plan checks out
\* the pre-run ref, then force-deletes the created branch (one delete, with
\* force), then raises the final-tree failure; the checkouts of the run are
\* the created branch followed by the pre-run ref.
C2_MismatchRollsBack ==
    (ap.pc = "raised" /\ ap.error = TreeMismatch /\ NotInterrupted)
    => /\ [i \in 1..Len(CallsOf("checkout")) |-> CallsOf("checkout")[i].args]
              = <<<<BranchName(diff.target_commit)>>, <<ap.original_ref>>>>
       /\ [i \in 1..Len(CallsOf("delete_branch")) |-> CallsOf("delete_branch")[i].args]
              = <<<<BranchName(diff.target_commit), TRUE>>>>
       /\ calls[Len(calls)].op = "delete_branch"
       /\ calls[Len(calls) - 1].op = "checkout"
       /\ ap.raised = TreeMismatch

\* C2 witness: the comparison reported a difference after a commit was made
\* and apply_plan has raised
C2_Witness ==
    /\ ap.pc = "raised"
    /\ ap.error = TreeMismatch
    /\ NotInterrupted
    /\ Len(repo.commits) >= 1

\* C3: a KeyboardInterrupt inside a step of apply_plan after the branch was
\* created runs the same rollback as any other failure (checkout of the
\* pre-run ref when the branch was checked out, forced deletion of the
\* branch) before it propagates.
C3_InterruptRollsBack ==
    (ap.pc = "raised" /\ ap.error = KeyboardInterrupt /\ ap.branch_created)
    => /\ ap.branch_checked_out =>
              \E i \in 1..Len(calls) :
                  calls[i].op = "checkout" /\ calls[i].args = <<ap.original_ref>>
       /\ \E i \in 1..Len(calls) :
              /\ calls[i].op = "delete_branch"
              /\ calls[i].args = <<BranchName(diff.target_commit), TRUE>>

\* The hunks a patch holds, each as <<new path, header>>, in patch order
PatchHunks(patch) ==
    Flatten([s \in 1..Len(patch) |->
        [h \in 1..Len(patch[s].hunks) |->
            <<patch[s].git_line[3][2], patch[s].hunks[h].header>>]])

\* The hunks passed to apply_patch so far, over all calls in call order
AppliedHunks ==
    Flatten([i \in 1..Len(CallsOf("apply_patch")) |->
                PatchHunks(CallsOf("apply_patch")[i].args[1])])

\* The hunks of one file of the Diff, each as <<path, header>>, in file order
NativeHunks(file) ==
    [i \in 1..Len(file.hunks) |-> <<FilePath(file), file.hunks[i].header>>]

\* C4: for a validated plan, when every repository operation succeeds, the
\* patches passed to apply_patch, taken in commit order, hold every hunk of
\* the Diff exactly once, each file's hunks in the file's native order.
C4_PatchesReproduceDiff ==
    (ap.pc = "returned" /\ ~dry_run /\ checked)
    => /\ \A f \in 1..Len(diff.files) :
              SelectSeqBy(AppliedHunks, Range(NativeHunks(diff.files[f])))
                  = NativeHunks(diff.files[f])
       /\ Len(AppliedHunks) = Len(AllHunkIds(diff))

\* C4 witness: a validated plan of two commits over two files was applied
\* to the end
C4_Witness ==
    /\ ap.pc = "returned"
    /\ ~dry_run
    /\ checked
    /\ Len(CallsOf("apply_patch")) = 2
    /\ Len(diff.files) = 2

\* The ref checked out, the branches, the index and the commits are as
\* they were before apply_plan was called (the work branch may have existed)
RepoUntouched ==
    /\ repo.current_ref = StartRef
    /\ repo.index = <<>>
    /\ repo.commits = <<>>

\* C14: in dry-run mode apply_plan invokes no repository operation, for any
\* plan, with or without base and target commit, and returns after logging
\* one entry (id, title, number of hunks) per suggested commit.
C14_DryRunTouchesNothing ==
    dry_run =>
        /\ calls = <<>>
        /\ RepoUntouched
        /\ ap.pc \in {"start", "returned"}
        /\ ap.pc = "returned" =>
               /\ Len(summary) = Len(commits) + 1
               /\ \A i \in 1..Len(commits) :
                      summary[i + 1] = <<"Commit", commits[i].id, commits[i].title,
                                         Len(commits[i].hunk_ids)>>

\* C14 witness: a dry run of a two-commit plan whose Diff has no base
\* commit has returned
C14_Witness ==
    /\ dry_run
    /\ ap.pc = "returned"
    /\ Len(commits) = 2
    /\ diff.base_commit = None
    /\ Len(summary) = 3

MissingCommitsError == GitError("cannot apply plan without both base and target commits")

\* C15: without dry-run, a missing base or target commit id makes
\* apply_plan raise a repository-operation error before any repository
\* operation; a failing clean check propagates with no other operation
\* invoked: no branch created, nothing checked out, no rollback.
C15_PreconditionsLeaveRepoUntouched ==
    (~dry_run /\ ap.pc = "raised")
    => /\ (diff.base_commit = None \/ diff.target_commit = None)
              => /\ calls = <<>>
                 /\ ap.raised = MissingCommitsError
                 /\ RepoUntouched
       /\ (calls # <<>> /\ calls[1].result # "ok")
              => /\ Len(calls) = 1
                 /\ calls[1].op = "ensure_repo_clean"
                 /\ ap.raised = Raises("ensure_repo_clean", calls[1].result)
                 /\ RepoUntouched

\* C15 witness: the clean check failed with a GitError
C15_Witness ==
    /\ ~dry_run
    /\ ap.pc = "raised"
    /\ Len(calls) = 1
    /\ calls[1].op = "ensure_repo_clean"
    /\ calls[1].result = "GitError"

\* The index of the first operation of the run that did not succeed, 0 if none
FirstFailure ==
    LET bad == {i \in 1..Len(calls) : calls[i].result \notin {"ok", "equal"}}
    IN  IF bad = {} THEN 0 ELSE CHOOSE i \in bad : \A j \in bad : i <= j

\* C16: when create_branch fails, for instance because the branch name
\* exists, apply_plan raises that error with no checkout, no apply_patch,
\* no create_commit and no delete_branch invoked, so that a branch of that
\* name which existed before is still there.
C16_BranchCollisionDeletesNothing ==
    ( /\ ap.pc = "raised"
      /\ FirstFailure # 0
      /\ calls[FirstFailure].op = "create_branch" )
    => /\ \A i \in 1..Len(calls) :
              calls[i].op \notin {"checkout", "apply_patch", "create_commit", "delete_branch"}
       /\ ap.raised = Raises("create_branch", calls[FirstFailure].result)
       /\ RepoUntouched

\* C16 witness: the work branch existed, create_branch failed, and the
\* branch is still there after apply_plan raised
C16_Witness ==
    /\ ap.pc = "raised"
    /\ Len(calls) = 3
    /\ calls[3].op = "create_branch"
    /\ calls[3].result = "GitError"
    /\ BranchName(diff.target_commit) \in repo.branches

\* The operations invoked so far, by name
CallOps == [i \in 1..Len(calls) |-> calls[i].op]

\* The suggested commits that are not skipped, in plan order
RECURSIVE AppliedCommits(_)
AppliedCommits(cs) ==
    IF cs = <<>> THEN <<>>
    ELSE IF Head(cs).hunk_ids = <<>> \/ RenderPartialDiff(diff, Head(cs).hunk_ids) = <<>>
         THEN AppliedCommits(Tail(cs))
         ELSE <<Head(cs)>> \o AppliedCommits(Tail(cs))

\* C17: a successful run without dry-run invokes, in this order, the clean
\* check, the current-ref query, create_branch("banana-split/split-" + the
\* first 7 characters of the target id, base), checkout of that branch,
\* apply_patch then create_commit for each commit, and one comparison of
\* target against HEAD; one branch is created, one checkout made, no
\* branch deleted.
C17_SuccessfulRunOrder ==
    (ap.pc = "returned" /\ ~dry_run)
    => LET n == Len(AppliedCommits(commits))
       IN  /\ Len(calls) = 4 + 2 * n + 1
           /\ SubSeq(CallOps, 1, 4)
                  = <<"ensure_repo_clean", "get_current_ref", "create_branch", "checkout">>
           /\ \A k \in 1..n :
                  /\ calls[4 + 2 * k - 1].op = "apply_patch"
                  /\ calls[4 + 2 * k].op = "create_commit"
                  /\ calls[4 + 2 * k].args = <<CommitMessage(AppliedCommits(commits)[k])>>
           /\ calls[Len(calls)].op = "trees_equal"
           /\ calls[Len(calls)].args = <<diff.target_commit, "HEAD">>
           /\ calls[3].args = <<<<"banana-split/split-", "bbbbbbb">>, diff.base_commit>>
           /\ calls[4].args = <<<<"banana-split/split-", "bbbbbbb">>>>
           /\ diff.target_commit = "bbbbbbbbbb"

\* C17 witness: a two-commit plan, the first commit with a body, was
\* applied to the end
C17_Witness ==
    /\ ap.pc = "returned"
    /\ ~dry_run
    /\ Len(CallsOf("create_commit")) = 2
    /\ commits[1].body = "why"

\* C18: create_commit is invoked only directly after a successful
\* index-only apply_patch of a non-blank patch rendered for the same
\* suggested commit; a commit with no hunks or with a blank patch causes
\* neither call, and the commits after it are still processed.
C18_NoEmptyCommit ==
    /\ \A i \in 1..Len(calls) :
           calls[i].op = "create_commit" =>
               /\ i > 1
               /\ calls[i - 1].op = "apply_patch"
               /\ calls[i - 1].result = "ok"
               /\ calls[i - 1].args[2] = TRUE
               /\ calls[i - 1].args[1] # <<>>
               /\ \E k \in 1..Len(commits) :
                      /\ calls[i].args = <<CommitMessage(commits[k])>>
                      /\ calls[i - 1].args[1] = RenderPartialDiff(diff, commits[k].hunk_ids)
    /\ \A i \in 1..Len(calls) :
           calls[i].op = "apply_patch" => calls[i].args[1] # <<>>
    /\ (ap.pc = "returned" /\ ~dry_run) =>
           /\ Len(CallsOf("apply_patch")) = Len(AppliedCommits(commits))
           /\ Len(CallsOf("create_commit")) = Len(AppliedCommits(commits))
           /\ Len(repo.commits) = Len(AppliedCommits(commits))
           /\ \A c \in 1..Len(repo.commits) : repo.commits[c].patches # <<>>

\* C18 witness: a plan whose first commit names only an unknown hunk, so
\* that its patch is blank, and whose second commit was applied and
\* committed
C18_Witness ==
    /\ ap.pc = "returned"
    /\ ~dry_run
    /\ Len(commits) = 2
    /\ commits[1].hunk_ids # <<>>
    /\ RenderPartialDiff(diff, commits[1].hunk_ids) = <<>>
    /\ Len(CallsOf("create_commit")) = 1

\* C19: without dry-run apply_plan returns only when the comparison of the
\* target with HEAD was made after the last suggested commit and answered
\* equal; once the comparison has answered that the trees differ,
\* apply_plan never returns normally.
C19_ReturnsOnlyOnEqualTrees ==
    /\ (ap.pc = "returned" /\ ~dry_run) =>
           /\ calls # <<>>
           /\ calls[Len(calls)].op = "trees_equal"
           /\ calls[Len(calls)].result = "equal"
           /\ calls[Len(calls)].args = <<diff.target_commit, "HEAD">>
           /\ ap.cidx = Len(commits) + 1
    /\ (\E i \in 1..Len(calls) : calls[i].op = "trees_equal" /\ calls[i].result = "differ")
           => ap.pc \in {"rollback", "raised"}

\* C19 witness: the comparison answered that the trees differ after a
\* commit was made, and apply_plan is about to roll back
C19_Witness ==
    /\ ap.pc = "rollback"
    /\ calls[Len(calls)].op = "trees_equal"
    /\ calls[Len(calls)].result = "differ"
    /\ Len(repo.commits) >= 1

\* The error of the first operation that did not succeed
OriginalFailure ==
    IF calls[FirstFailure].result = "differ" THEN TreeMismatch
    ELSE Raises(calls[FirstFailure].op, calls[FirstFailure].result)

\* C20: whichever rollback operations fail (the checkout of the pre-run
\* ref, the forced branch deletion, or both), apply_plan raises the failure
\* that started the rollback, and the forced deletion is attempted also
\* after the rollback checkout failed.
C20_RollbackFailuresNotEscalated ==
    ( /\ ap.pc = "raised"
      /\ NotInterrupted
      /\ \E i \in 1..Len(calls) : IsRollbackCall(calls[i]) )
    => /\ FirstFailure # 0
       /\ ~IsRollbackCall(calls[FirstFailure])
       /\ ap.raised = OriginalFailure
       /\ \A i \in 1..Len(calls) :
              (calls[i].op = "checkout" /\ calls[i].args = <<ap.original_ref>>)
                  => /\ i < Len(calls)
                     /\ calls[i + 1].op = "delete_branch"
                     /\ calls[i + 1].args = <<BranchName(diff.target_commit), TRUE>>

\* C20 witness: after a failed create_commit both rollback operations
\* failed and apply_plan raised
C20_Witness ==
    /\ ap.pc = "raised"
    /\ NotInterrupted
    /\ Len(calls) >= 2
    /\ calls[Len(calls)].op = "delete_branch"
    /\ calls[Len(calls)].result = "GitError"
    /\ calls[Len(calls) - 1].op = "checkout"
    /\ calls[Len(calls) - 1].result = "GitError"
    /\ ap.raised = GitError("create_commit")

----------------------------------------------------------------------------
(* Claims about the validator *)

\* Number of positions of s holding x
Occurrences(s, x) == Cardinality({i \in 1..Len(s) : s[i] = x})

\* The hunk ids of one file met when walking a commit list in order
FileWalk(cs, file) == SelectSeqBy(AssignedIds(cs), Range(FileHunkIds(file)))

\* C5: when _validate_and_order_plan returns without error, every hunk id of
\* the Diff occurs exactly once in the concatenation of the commits'
\* hunk_ids, and no commit holds an id that is absent from the Diff.
C5_ExactCover ==
    vresult = "ok" =>
        /\ \A hid \in Range(AllHunkIds(diff)) :
               Occurrences(AssignedIds(commits), hid) = 1
        /\ Range(AssignedIds(commits)) \subseteq Range(AllHunkIds(diff))

\* C5 witness: an accepted plan of two commits over at least two hunks
C5_Witness ==
    /\ vresult = "ok"
    /\ Len(commits) >= 2
    /\ Len(AllHunkIds(diff)) >= 2

\* The supplied commits that hold hunks, in ascending order of their smallest
\* canonical index
OrderedNonEmpty(d, cs) ==
    SortCommits(d, SelectSeqBy(cs, {c \in Range(cs) : c.hunk_ids # <<>>}))

HasUnknown(d, cs) == ~(Range(AssignedIds(cs)) \subseteq Range(AllHunkIds(d)))
HasMissing(d, cs) == ~(Range(AllHunkIds(d)) \subseteq Range(AssignedIds(cs)))
HasDuplicate(cs) ==
    \E hid \in Range(AssignedIds(cs)) : Occurrences(AssignedIds(cs), hid) > 1
HasReorder(d, cs) ==
    \E f \in 1..Len(d.files) :
        FileWalk(OrderedNonEmpty(d, cs), d.files[f]) # FileHunkIds(d.files[f])

\* C6: the validator fails with a plan-validation error, with a message of
\* its own, for an unknown hunk id, a hunk in no commit, a hunk in two
\* commits and a per-file reordering; with several violations present the
\* first in that order is the one reported.
C6_Rejections ==
    vresult # "pending" =>
        /\ HasUnknown(diff, supplied) => vresult = "unknown_hunk"
        /\ (~HasUnknown(diff, supplied) /\ HasMissing(diff, supplied))
               => vresult = "not_covered"
        /\ (~HasUnknown(diff, supplied) /\ ~HasMissing(diff, supplied)
               /\ HasDuplicate(supplied)) => vresult = "multiple_commits"
        /\ (~HasUnknown(diff, supplied) /\ ~HasMissing(diff, supplied)
               /\ ~HasDuplicate(supplied) /\ HasReorder(diff, supplied))
               => vresult = "reorders"

\* C7: after a successful validation, walking the final commit list in
\* order (each commit's hunk_ids in list order) meets every file's hunk ids
\* in the file's hunk order in the Diff.
C7_PerFileOrder ==
    vresult = "ok" =>
        \A f \in 1..Len(diff.files) :
            FileWalk(commits, diff.files[f]) = FileHunkIds(diff.files[f])

\* C7 witness: an accepted plan that splits one file's hunks over two
\* commits which the validator had to put in order
C7_Witness ==
    /\ vresult = "ok"
    /\ commits # supplied
    /\ \E f \in 1..Len(diff.files) : \E i, j \in 1..Len(commits) :
           /\ i # j
           /\ Range(commits[i].hunk_ids) \cap Range(FileHunkIds(diff.files[f])) # {}
           /\ Range(commits[j].hunk_ids) \cap Range(FileHunkIds(diff.files[f])) # {}

\* The files a commit's hunks belong to
CommitFiles(d, c) == {HunkFile(d, hid) : hid \in Range(c.hunk_ids)}

\* Position of the commit with the given id in a commit list
PositionOf(cs, id) == CHOOSE i \in 1..Len(cs) : cs[i].id = id

\* C8: validation keeps the supplied relative order of commits whose hunks
\* belong to different files (source-first stays source-first although the
\* test file comes first in the Diff).
C8_CrossFileOrderKept ==
    vresult = "ok" =>
        \A i, j \in 1..Len(supplied) :
            (i < j /\ CommitFiles(diff, supplied[i]) \cap CommitFiles(diff, supplied[j]) = {})
                => PositionOf(commits, supplied[i].id) < PositionOf(commits, supplied[j].id)

----------------------------------------------------------------------------
(* Inputs of the atomizer and its specification *)

\* The file lists over distinct paths of AtomPaths
FileOrders ==
    UNION {{ps \in [1..k -> AtomPaths] : \A i, j \in 1..k : i # j => ps[i] # ps[j]} :
              k \in 1..Cardinality(AtomPaths)}

\* The Diff whose files have the paths ps and share out the symbol list s at
\* the cut positions c
SymbolDiff(ps, s, c) ==
    [base_commit |-> BaseId, target_commit |-> TargetId,
     files |-> [f \in 1..Len(ps) |->
                  FileDiff(ps[f], ps[f], "modify",
                           SubSeq(s, (IF f = 1 THEN 0 ELSE c[f - 1]) + 1, c[f]))]]

InitAtom ==
    /\ \/ diff = [base_commit |-> BaseId, target_commit |-> TargetId, files |-> <<>>]
       \/ \E ps \in FileOrders :
          \E s \in UNION {[1..n -> Symbols] : n \in 0..MaxAtomHunks} :
          \E c \in CutsInto(Len(s), Len(ps)) :
              diff = SymbolDiff(ps, s, c)
    /\ commits = <<>>
    /\ supplied = <<>>
    /\ vresult = "idle"
    /\ checked = FALSE
    /\ atomized = FALSE
    /\ atoms = <<>>
    /\ IdleApply
    /\ IdlePure

\* atomize_semantically(diff)
Atomize ==
    /\ vresult = "idle"
    /\ ~atomized
    /\ atomized' = TRUE
    /\ atoms' = AtomizeSemantically(diff)
    /\ UNCHANGED planVars
    /\ UNCHANGED applyVars
    /\ UNCHANGED pureVars

NextAtom == Atomize

SpecAtom == InitAtom /\ [][NextAtom]_vars

----------------------------------------------------------------------------
(* Claims about the atomizer *)

\* Every hunk id of the returned atomic changes, in output order
AtomHunkIds == Flatten([a \in 1..Len(atoms) |-> atoms[a].hunk_ids])

C10_AtomizerPerFileOrder ==
    atomized =>
        \A f \in 1..Len(diff.files) :
            SelectSeqBy(AtomHunkIds, Range(FileHunkIds(diff.files[f])))
                = FileHunkIds(diff.files[f])

\* The edge relation has no cycle: no id reaches itself
RECURSIVE ReachableFrom(_, _)
ReachableFrom(edges, frontier) ==
    LET more == frontier \cup {e[2] : e \in {x \in edges : x[1] \in frontier}}
    IN  IF more = frontier THEN frontier ELSE ReachableFrom(edges, more)

Acyclic(edges) ==
    \A e \in edges : e[1] \notin ReachableFrom(edges, {e[2]})

\* The value of the tag of the given kind on an atomic change, None if absent
TagValue(a, kind) ==
    IF \E tg \in a.tags : Len(tg) = 2 /\ tg[1] = kind
    THEN (CHOOSE tg \in a.tags : Len(tg) = 2 /\ tg[1] = kind)[2]
    ELSE None

IsTestAtom(a) == <<"test">> \in a.tags

\* The positions of the groups a test-tagged group depends on: the non-test
\* groups of its normalized symbol, or failing that of its module key
DependsOn(t) ==
    LET others == {i \in 1..Len(atoms) : ~IsTestAtom(atoms[i])}
        sameSymbol == {i \in others :
                          /\ TagValue(atoms[t], "symbol") # None
                          /\ TagValue(atoms[i], "symbol") = TagValue(atoms[t], "symbol")}
        sameModule == {i \in others :
                          /\ TagValue(atoms[t], "module") # None
                          /\ TagValue(atoms[i], "module") = TagValue(atoms[t], "module")}
    IN  IF sameSymbol # {} THEN sameSymbol ELSE sameModule

----------------------------------------------------------------------------
(* Inputs of _topological_sort and its specification *)

\* The k-th _SemanticNode of a call, with the given earliest-hunk index
TopoNode(k, order) ==
    [id |-> <<UtilPath, "ac", k>>, file_path |-> UtilPath, symbol |-> None,
     hunk_ids |-> <<HunkId(UtilPath, order)>>, tags |-> {<<"python">>},
     summary |-> <<"Changes in", UtilPath, None>>, first_order |-> order]

\* An id no node carries
GhostId == <<"ghost.py", "ac", 0>>

\* The subsets of S with at most k elements
RECURSIVE SubsetsUpTo(_, _)
SubsetsUpTo(S, k) ==
    IF k = 0 \/ S = {} THEN {{}}
    ELSE LET x == CHOOSE y \in S : TRUE
         IN  SubsetsUpTo(S \ {x}, k) \cup {T \cup {x} : T \in SubsetsUpTo(S \ {x}, k - 1)}

\* _topological_sort is handed nodes whose earliest-hunk indexes differ (two
\* groups never share a hunk) and any edge relation, over the node ids and
\* an id of no node
InitTopo ==
    /\ diff = [base_commit |-> BaseId, target_commit |-> TargetId, files |-> <<>>]
    /\ commits = <<>>
    /\ supplied = <<>>
    /\ vresult = "idle"
    /\ checked = FALSE
    /\ atomized = FALSE
    /\ atoms = <<>>
    /\ IdleApply
    /\ IdleRoundTrip
    /\ IdleRun
    /\ IdleGit
    /\ \E n \in 0..MaxTopoNodes :
       \E fo \in {f \in [1..n -> 0..(n - 1)] : \A i, j \in 1..n : i # j => f[i] # f[j]} :
       \E es \in SubsetsUpTo(LET ids == {<<UtilPath, "ac", k>> : k \in 0..(n - 1)} \cup {GhostId}
                             IN  ids \X ids, MaxTopoEdges) :
           topo = [nodes |-> [k \in 1..n |-> TopoNode(k - 1, fo[k])],
                   edges |-> es, called |-> FALSE, result |-> <<>>]

\* _topological_sort(nodes, edges)
TopoSort ==
    /\ ~topo.called
    /\ topo' = [topo EXCEPT !.called = TRUE,
                            !.result = TopologicalSort(topo.nodes, topo.edges)]
    /\ UNCHANGED <<reparsed, run, git, rendered>>
    /\ UNCHANGED planVars
    /\ UNCHANGED atomVars
    /\ UNCHANGED applyVars

NextTopo == TopoSort

SpecTopo == InitTopo /\ [][NextTopo]_vars

\* The edges between ids of the nodes handed in
InnerEdges ==
    {e \in topo.edges : \A k \in 1..2 : \E i \in 1..Len(topo.nodes) : topo.nodes[i].id = e[k]}

\* C12: for any edge relation, cyclic or not, _topological_sort returns
\* every group exactly once; when the edges among the groups hold a cycle,
\* so that the topological pass cannot emit every group, the result is the
\* groups in ascending order of their earliest-hunk index.
C12_CycleFallback ==
    topo.called =>
        /\ Len(topo.result) = Len(topo.nodes)
        /\ \A i \in 1..Len(topo.nodes) : Occurrences(topo.result, topo.nodes[i]) = 1
        /\ ~Acyclic(InnerEdges) =>
               \A i \in 1..(Len(topo.result) - 1) :
                   topo.result[i].first_order < topo.result[i + 1].first_order

\* C12 witness: three groups, handed over in an order other than that of
\* their earliest hunks, with a cycle between two distinct groups, were
\* returned
C12_Witness ==
    /\ topo.called
    /\ Len(topo.nodes) = 3
    /\ topo.nodes[1].first_order > topo.nodes[2].first_order
    /\ \E e \in InnerEdges : e[1] # e[2] /\ <<e[2], e[1]>> \in InnerEdges
    /\ Len(topo.result) = 3

----------------------------------------------------------------------------
(* Inputs of the render/parse round trip and its specification *)

\* The shapes of one file section of `git diff --find-renames` output
SectionKinds ==
    {"modify", "add", "delete", "rename", "pure_rename", "mode_change", "binary", "empty_add"}

\* Whether a section of the kind carries "---"/"+++" lines and hunks
HasText(kind) == kind \in {"modify", "add", "delete", "rename"}

\* The name a renamed file had before
OldName(path) ==
    IF path = SourcePath THEN "legacy_service.py"
    ELSE IF path = TestPath THEN "tests/test_legacy.py"
    ELSE "legacy_util.py"

\* The lines of the n-th hunk (0-based) of a section; an odd hunk ends
\* with the "\ No newline at end of file" marker
RawHunkOf(n, symbol) ==
    <<<<"@@", n, symbol>>,
      <<" ", "a = 1">>, <<"-", "b = 2">>, <<"+", "b = 3">>>>
    \o (IF n % 2 = 1 THEN <<<<"\\", "No newline at end of file">>>> ELSE <<>>)

\* The n-th hunk with the enclosing function git prints after the range
RawHunk(n) ==
    RawHunkOf(n, IF n = 0 THEN "def compute" ELSE None)

\* The lines of one file section as git prints it
RawSectionOf(path, kind, hunks) ==
    LET old == IF kind \in {"rename", "pure_rename"} THEN OldName(path) ELSE path
    IN  <<<<"diff --git", <<"a/", old>>, <<"b/", path>>>>>>
        \o (CASE kind \in {"add", "empty_add"} -> <<<<"new file mode", "100644">>>>
              [] kind = "delete" -> <<<<"deleted file mode", "100644">>>>
              [] kind = "mode_change" -> <<<<"old mode", "100644">>, <<"new mode", "100755">>>>
              [] kind \in {"rename", "pure_rename"} ->
                     <<<<"similarity index", "90%">>, <<"rename from", old>>,
                       <<"rename to", path>>>>
              [] OTHER -> <<>>)
        \o (IF kind \in {"mode_change", "pure_rename"} THEN <<>>
            ELSE <<<<"index", "83db48f..bf269f4">>>>)
        \o (IF kind = "binary" THEN <<<<"Binary files", "differ">>>> ELSE <<>>)
        \o (IF HasText(kind)
            THEN <<<<"---", IF kind = "add" THEN <<"/dev/null">> ELSE <<"a/", old>>>>,
                   <<"+++", IF kind = "delete" THEN <<"/dev/null">> ELSE <<"b/", path>>>>>>
                 \o Flatten(hunks)
            ELSE <<>>)

\* A file section of n hunks
RawSection(path, kind, n) ==
    RawSectionOf(path, kind, [h \in 1..n |-> RawHunk(h - 1)])

\* The Diff is what parse_unified_diff made of a raw diff of at most
\* MaxRawFiles sections over distinct paths
InitRoundTrip ==
    /\ \E k \in 0..MaxRawFiles :
       \E ps \in {f \in [1..k -> AtomPaths] : \A i, j \in 1..k : i # j => f[i] # f[j]} :
       \E ks \in [1..k -> SectionKinds] :
       \E ns \in [1..k -> 1..MaxRawHunks] :
           /\ \A f \in 1..k : ~HasText(ks[f]) => ns[f] = 1
           /\ diff = ParseUnifiedDiff(
                         Flatten([f \in 1..k |-> RawSection(ps[f], ks[f], ns[f])]))
    /\ commits = <<>>
    /\ supplied = <<>>
    /\ vresult = "idle"
    /\ checked = FALSE
    /\ atomized = FALSE
    /\ atoms = <<>>
    /\ IdleApply
    /\ IdlePure

\* parse_unified_diff(render_partial_diff(diff, all hunk ids))
RoundTrip ==
    /\ ~reparsed.called
    /\ reparsed' = [called |-> TRUE,
                    files |-> ParseUnifiedDiff(
                                  PatchLines(RenderPartialDiff(diff, AllHunkIds(diff)))).files]
    /\ UNCHANGED <<topo, run, git, rendered>>
    /\ UNCHANGED planVars
    /\ UNCHANGED atomVars
    /\ UNCHANGED applyVars

NextRoundTrip == RoundTrip

SpecRoundTrip == InitRoundTrip /\ [][NextRoundTrip]_vars

\* C13: rendering all the hunk ids of a Diff and parsing the result gives
\* a Diff with the same number of files, the same number of hunks and the
\* same set of hunk ids.
C13_RoundTrip ==
    reparsed.called =>
        /\ Len(reparsed.files) = Len(diff.files)
        /\ Len(AllHunkIds([files |-> reparsed.files])) = Len(AllHunkIds(diff))
        /\ Range(AllHunkIds([files |-> reparsed.files])) = Range(AllHunkIds(diff))

\* ---------------------------------------------------------------------
\* Preflight (preflight.py)
\* ---------------------------------------------------------------------

UnsupportedOperationError(what) == <<"UnsupportedOperationError", what>>

\* _display_path: one name, or "old -> new" when the two differ
DisplayPath(file) ==
    LET old_path == OrElse(file.path_old, "unknown")
        new_path == OrElse(file.path_new, "unknown")
    IN  IF old_path = new_path THEN <<new_path>> ELSE <<old_path, "->", new_path>>

IsBinaryFile(file) == file.is_binary
IsRenameOnly(file) == file.change_type = "rename" /\ file.hunks = <<>>
IsModeOnly(file) == file.change_type = "modify" /\ ~file.is_binary /\ file.hunks = <<>>

\* [_display_path(file) for file in files]
DisplayPaths(files) == [i \in 1..Len(files) |-> DisplayPath(files[i])]

BinaryFilePaths(d) ==
    DisplayPaths(SelectSeqBy(d.files, {file \in Range(d.files) : IsBinaryFile(file)}))
RenameOnlyPaths(d) ==
    DisplayPaths(SelectSeqBy(d.files, {file \in Range(d.files) : IsRenameOnly(file)}))
ModeOnlyPaths(d) ==
    DisplayPaths(SelectSeqBy(d.files, {file \in Range(d.files) : IsModeOnly(file)}))

\* validate_runtime_support checking nothing
ValidateRuntimeSupport_permissive(use_staged, is_dry_run, base_commit, d) == NoError

\* validate_runtime_support: NoError when it returns, the error it raises
\* otherwise
ValidateRuntimeSupport(use_staged, is_dry_run, base_commit, d) ==
    IF use_staged /\ ~is_dry_run
    THEN UnsupportedOperationError("splitting staged changes currently supports --dry-run only")
    ELSE IF is_dry_run THEN NoError
    ELSE IF base_commit = None
    THEN UnsupportedOperationError("splitting root commits is not supported yet")
    ELSE IF BinaryFilePaths(d) = <<>> /\ RenameOnlyPaths(d) = <<>> /\ ModeOnlyPaths(d) = <<>>
    THEN NoError
    ELSE UnsupportedOperationError(<<"unsupported diff features",
                                      BinaryFilePaths(d), RenameOnlyPaths(d),
                                      ModeOnlyPaths(d)>>)

\* ---------------------------------------------------------------------
\* Heuristic grouping (analysis/heuristics.py)
\* ---------------------------------------------------------------------

\* "test" in path.lower()
MentionsTest(path) == path \in {TestPath, OldName(TestPath)}

\* The tags group_hunks gives every atomic change of a file
HeuristicTags(path) ==
    (IF path # "" /\ DetectLanguage(path) # None THEN {<<DetectLanguage(path)>>} ELSE {})
        \cup (IF MentionsTest(path) THEN {<<"test">>} ELSE {})

\* The grouping key of a hunk: its symbol when that is a non-empty string
MetaSymbol(hunk) == IF hunk.symbol \in {None, ""} THEN None ELSE hunk.symbol

RECURSIVE SymbolOrder(_, _)
\* The keys of the hunks in order of first appearance
SymbolOrder(hunks, seen) ==
    IF hunks = <<>> THEN <<>>
    ELSE LET key == MetaSymbol(Head(hunks))
         IN  IF key \in seen THEN SymbolOrder(Tail(hunks), seen)
             ELSE <<key>> \o SymbolOrder(Tail(hunks), seen \cup {key})

\* groups[symbol] = [hunk.id] in place of groups[symbol].append(hunk.id):
\* only one hunk of each key is kept
SymbolHunkIds_one_per_key(hunks, key) ==
    LET at == {i \in 1..Len(hunks) : MetaSymbol(hunks[i]) = key}
    IN  IF at = {} THEN <<>> ELSE <<hunks[Min(at)].id>>

RECURSIVE SymbolHunkIds(_, _)
\* groups[symbol]: the ids of the hunks of one key, in file order
SymbolHunkIds(hunks, key) ==
    IF hunks = <<>> THEN <<>>
    ELSE IF MetaSymbol(Head(hunks)) = key
         THEN <<Head(hunks).id>> \o SymbolHunkIds(Tail(hunks), key)
         ELSE SymbolHunkIds(Tail(hunks), key)

\* The atomic changes group_hunks makes of one file that has hunks
FileAtomicChanges(file) ==
    LET path == OrElse(file.path_new, OrElse(file.path_old, ""))
        order == SymbolOrder(file.hunks, {})
    IN  IF Len(order) = 1
        THEN <<[id |-> <<path, "ac", 0>>,
                hunk_ids |-> [i \in 1..Len(file.hunks) |-> file.hunks[i].id],
                tags |-> HeuristicTags(path),
                summary |-> <<"Changes in", path>>]>>
        ELSE [k \in 1..Len(order) |->
                [id |-> <<path, "ac", k - 1>>,
                 hunk_ids |-> SymbolHunkIds(file.hunks, order[k]),
                 tags |-> HeuristicTags(path),
                 summary |-> IF order[k] # None
                             THEN <<"Changes in", path, order[k]>>
                             ELSE <<"Changes in", path>>]]

HasHunks(file) == file.hunks # <<>>

\* group_hunks(diff)
GroupHunks(d) ==
    LET with_hunks == SelectSeqBy(d.files, {file \in Range(d.files) : HasHunks(file)})
    IN  Flatten([f \in 1..Len(with_hunks) |-> FileAtomicChanges(with_hunks[f])])

\* ---------------------------------------------------------------------
\* The split run (cli.py main, planner.py run_split and build_plan)
\* ---------------------------------------------------------------------

PlanValidationError(what) == <<"PlanValidationError", what>>
ValueError(what) == <<"ValueError", what>>

\* What _validate_and_order_plan raises for an outcome
ValidationError(outcome) ==
    IF outcome = "ok" THEN NoError
    ELSE IF outcome = "ValueError" THEN ValueError("min() arg is an empty sequence")
    ELSE PlanValidationError(outcome)

\* build_plan going on to return the plan whatever the validator did
AfterValidation_unguarded(outcome) == "review"

\* Where build_plan goes when _validate_and_order_plan is over: on to
\* planner.py:73-74 and review_plan, or out with the exception
AfterValidation(outcome) == IF outcome = "ok" THEN "review" ELSE "failed"

\* main returning 0 whatever happened
ExitStatus_always_zero(e) == 0

\* The return value of main for the exception e that left run_split
ExitStatus(e) ==
    IF e = NoError THEN 0
    ELSE IF e[1] = "KeyboardInterrupt" THEN 130
    ELSE 1

\* What main prints on stderr for the exception e
Diagnostic(e) ==
    IF CaughtByExceptException(e) THEN <<<<"banana-split: error:", e>>>> ELSE <<>>

\* One SuggestedCommit per atomic change (planner.py:53-63, and
\* OpenAIClient.propose_commits)
ProposedCommits(changes) ==
    [i \in 1..Len(changes) |->
        [id |-> changes[i].id, title |-> "Atomic change", body |-> None,
         hunk_ids |-> changes[i].hunk_ids]]

\* The titles after the interactive renaming of review_plan
Renamed(cs) == [i \in 1..Len(cs) |-> [cs[i] EXCEPT !.title = "Edited title"]]

\* Bounds of the raw diffs a run is given
MaxRunFiles == 2
MaxRunHunks == 3

\* The kinds of file section a run is given
RunKinds == {"modify", "rename", "pure_rename", "mode_change", "binary", "empty_add"}

\* The enclosing functions git prints on the hunk headers of a run
RunSymbols == {None, "def compute"}

\* The hunks a section of a kind can have
HunkCounts(kind) == IF HasText(kind) THEN 1..MaxRunHunks ELSE {0}

\* main(argv) is called: the configuration is parsed from the command
\* line, and the commit (or the index) holds a raw diff of at most
\* MaxRunFiles sections and MaxRunHunks hunks
InitRun ==
    /\ \E staged \in BOOLEAN : \E ai \in BOOLEAN :
       \E base \in {BaseId, None} :
       \E k \in 0..MaxRunFiles :
       \E ps \in {f \in [1..k -> {SourcePath, TestPath}] :
                    \A i, j \in 1..k : i # j => f[i] # f[j]} :
       \E ks \in [1..k -> RunKinds] :
       \E ns \in {f \in [1..k -> 0..MaxRunHunks] : \A i \in 1..k : f[i] \in HunkCounts(ks[i])} :
       \E ss \in [1..k -> [1..MaxRunHunks -> RunSymbols]] :
           /\ staged => base = BaseId
           /\ \A f \in 1..k : \A h \in 1..MaxRunHunks : h > ns[f] => ss[f][h] = None
           /\ (k = 2 => ns[1] + ns[2] <= MaxRunHunks)
           /\ run = [pc |-> "main", use_staged |-> staged, use_ai |-> ai,
                     raw |-> Flatten([f \in 1..k |->
                                RawSectionOf(ps[f], ks[f],
                                    [h \in 1..ns[f] |-> RawHunkOf(h - 1, ss[f][h])])]),
                     base |-> base,
                     target |-> IF staged THEN None ELSE TargetId,
                     atomic_changes |-> <<>>,
                     error |-> NoError, exit |-> -1, stderr |-> <<>>]
    /\ diff = [base_commit |-> None, target_commit |-> None, files |-> <<>>]
    /\ commits = <<>>
    /\ supplied = <<>>
    /\ vresult = "idle"
    /\ checked = FALSE
    /\ atomized = FALSE
    /\ atoms = <<>>
    /\ IdleTopo /\ IdleRoundTrip /\ IdleGit
    /\ dry_run \in BOOLEAN
    /\ ap = [pc |-> "idle", cidx |-> 0, patch |-> <<>>, original_ref |-> NoRef,
             branch_created |-> FALSE, branch_checked_out |-> FALSE,
             todo |-> <<>>, error |-> NoError, raised |-> NoError]
    /\ \E existing \in SUBSET {BranchName(TargetId)} :
           repo = [current_ref |-> StartRef, branches |-> existing,
                   index |-> <<>>, commits |-> <<>>]
    /\ calls = <<>>
    /\ summary = <<>>

\* _obtain_git_diff (planner.py:38): git show or git diff --cached
ObtainGitDiff ==
    /\ run.pc = "main"
    /\ \E o \in Outcomes :
          run' = IF o = "ok" THEN [run EXCEPT !.pc = "parse"]
                 ELSE [run EXCEPT !.pc = "failed", !.error = Raises("diff", o)]
    /\ UNCHANGED <<topo, reparsed, git, rendered>>
    /\ UNCHANGED planVars
    /\ UNCHANGED atomVars
    /\ UNCHANGED applyVars

\* parse_unified_diff and the two assignments after it (planner.py:39-41)
ParseDiff ==
    /\ run.pc = "parse"
    /\ diff' = [ParseUnifiedDiff(run.raw) EXCEPT !.base_commit = run.base,
                                                 !.target_commit = run.target]
    /\ run' = [run EXCEPT !.pc = "preflight"]
    /\ UNCHANGED <<commits, supplied, vresult, checked>>
    /\ UNCHANGED <<topo, reparsed, git, rendered>>
    /\ UNCHANGED atomVars
    /\ UNCHANGED applyVars

\* validate_runtime_support(config, git_diff, diff) (planner.py:42)
Preflight ==
    /\ run.pc = "preflight"
    /\ LET e == ValidateRuntimeSupport(run.use_staged, dry_run, run.base, diff)
       IN  run' = IF e = NoError THEN [run EXCEPT !.pc = "group"]
                  ELSE [run EXCEPT !.pc = "failed", !.error = e]
    /\ UNCHANGED <<topo, reparsed, git, rendered>>
    /\ UNCHANGED planVars
    /\ UNCHANGED atomVars
    /\ UNCHANGED applyVars

\* group_hunks(diff) (planner.py:44)
GroupHunksOfDiff ==
    /\ run.pc = "group"
    /\ run' = [run EXCEPT !.pc = "propose", !.atomic_changes = GroupHunks(diff)]
    /\ UNCHANGED <<topo, reparsed, git, rendered>>
    /\ UNCHANGED planVars
    /\ UNCHANGED atomVars
    /\ UNCHANGED applyVars

\* The suggested commits and the unchecked Plan (planner.py:46-70)
ProposeCommits ==
    /\ run.pc = "propose"
    /\ commits' = ProposedCommits(run.atomic_changes)
    /\ supplied' = ProposedCommits(run.atomic_changes)
    /\ vresult' = "pending"
    /\ checked' = FALSE
    /\ run' = [run EXCEPT !.pc = "validate"]
    /\ UNCHANGED diff
    /\ UNCHANGED <<topo, reparsed, git, rendered>>
    /\ UNCHANGED atomVars
    /\ UNCHANGED applyVars

\* _validate_and_order_plan(plan) and the flag (planner.py:72-74)
ValidatePlan ==
    /\ run.pc = "validate"
    /\ vresult' = ValidateOutcome(diff, commits)
    /\ commits' = ValidatedCommits(diff, commits)
    /\ checked' = (AfterValidation(ValidateOutcome(diff, commits)) = "review")
    /\ run' = [run EXCEPT !.pc = AfterValidation(ValidateOutcome(diff, commits)),
                          !.error = ValidationError(ValidateOutcome(diff, commits))]
    /\ UNCHANGED <<diff, supplied>>
    /\ UNCHANGED <<topo, reparsed, git, rendered>>
    /\ UNCHANGED atomVars
    /\ UNCHANGED applyVars

\* review_plan(plan) (planner.py:174), then the call of apply_plan
\* (planner.py:176): the titles are kept, or edited at the prompt
ReviewPlan ==
    /\ run.pc = "review"
    /\ \E edit \in BOOLEAN :
          commits' = IF edit THEN Renamed(commits) ELSE commits
    /\ run' = [run EXCEPT !.pc = "apply"]
    /\ ap' = [ap EXCEPT !.pc = "start"]
    /\ UNCHANGED <<diff, supplied, vresult, checked>>
    /\ UNCHANGED <<dry_run, repo, calls, summary>>
    /\ UNCHANGED <<topo, reparsed, git, rendered>>
    /\ UNCHANGED atomVars

\* The exception that left run_split, NoError when it returned
RunSplitRaised ==
    IF run.pc = "failed" THEN run.error ELSE ap.raised

\* The end of main (cli.py:127-137)
MainExit ==
    /\ \/ run.pc = "failed"
       \/ run.pc = "apply" /\ ap.pc \in {"returned", "raised"}
    /\ run' = [run EXCEPT !.pc = "exited",
                          !.error = RunSplitRaised,
                          !.exit = ExitStatus(RunSplitRaised),
                          !.stderr = Diagnostic(RunSplitRaised)]
    /\ UNCHANGED <<topo, reparsed, git, rendered>>
    /\ UNCHANGED planVars
    /\ UNCHANGED atomVars
    /\ UNCHANGED applyVars

NextRun ==
    \/ ObtainGitDiff
    \/ ParseDiff
    \/ Preflight
    \/ GroupHunksOfDiff
    \/ ProposeCommits
    \/ ValidatePlan
    \/ ReviewPlan
    \/ ApplyStart
    \/ EnsureRepoClean
    \/ GetCurrentRef
    \/ CreateBranch
    \/ CheckoutBranch
    \/ NextCommit
    \/ ApplyPatch
    \/ CreateCommit
    \/ TreesEqual
    \/ RollbackCheckout
    \/ RollbackDeleteBranch
    \/ MainExit

SpecRun == InitRun /\ [][NextRun]_vars

\* ---------------------------------------------------------------------
\* Properties of the split run
\* ---------------------------------------------------------------------

\* A file the apply engine cannot replay: binary, renamed without hunks,
\* or a non-binary modification without hunks
UnsupportedFile(file) ==
    \/ file.is_binary
    \/ file.change_type = "rename" /\ Len(file.hunks) = 0
    \/ file.change_type = "modify" /\ ~file.is_binary /\ Len(file.hunks) = 0

\* The inputs for which a run outside dry-run is unsupported
UnsupportedRun ==
    /\ ~dry_run
    /\ \/ run.use_staged
       \/ run.base = None
       \/ \E f \in 1..Len(diff.files) : UnsupportedFile(diff.files[f])

\* The preflight step raised the unsupported-operation error
PreflightRaised ==
    /\ run'.pc = "failed"
    /\ run'.error # NoError
    /\ run'.error[1] = "UnsupportedOperationError"

\* C21: validate_runtime_support raises the unsupported-operation error
\* exactly when the run is not a dry-run and the source is the staged
\* changes, or the base commit is absent, or some file is binary, a rename
\* without hunks or a non-binary modify without hunks; in dry-run mode it
\* never raises.
C21_PreflightRaisesIff ==
    [][run.pc = "preflight" => (PreflightRaised <=> UnsupportedRun)]_vars

\* A run outside dry-run of a commit with a parent stopped at the preflight
\* because of a binary file
C21_Witness ==
    /\ run.pc = "failed"
    /\ run.error # NoError
    /\ run.error[1] = "UnsupportedOperationError"
    /\ ~dry_run /\ ~run.use_staged /\ run.base # None
    /\ \E f \in 1..Len(diff.files) : diff.files[f].is_binary

\* The operations that change the repository
MutatingOps == {"create_branch", "checkout", "apply_patch", "create_commit", "delete_branch"}

\* No repository-mutating operation was invoked
NothingMutated ==
    /\ \A i \in 1..Len(calls) : calls[i].op \notin MutatingOps
    /\ RepoUntouched

\* The run stopped in build_plan at the preflight or in the validator
PlanningFailed ==
    /\ run.error # NoError
    /\ run.error[1] \in {"UnsupportedOperationError", "PlanValidationError", "ValueError"}

\* C22: in run_split apply_plan is invoked only after
\* _validate_and_order_plan has returned without error and the checked flag
\* of the plan has been set; when the preflight or the validation fails the
\* run ends without a branch creation, checkout, patch application or commit.
C22_ValidationGatesMutation ==
    /\ (ap.pc # "idle" \/ calls # <<>>) => (vresult = "ok" /\ checked)
    /\ PlanningFailed => (ap.pc = "idle" /\ NothingMutated)

\* A run outside dry-run whose plan the validator rejected has ended
C22_Witness ==
    /\ run.pc = "exited"
    /\ ~dry_run
    /\ vresult = "reorders"
    /\ run.exit = 1

\* C24: main maps the outcome of a split run to its exit status: a user
\* interruption gives 130, any other failure (repository, validation,
\* unsupported operation, internal consistency) gives 1 after a short
\* diagnostic was printed, and only a run that ended without error gives 0.
C24_ExitStatus ==
    run.pc = "exited" =>
        /\ run.exit \in {0, 1, 130}
        /\ run.exit = 130 <=> run.error = KeyboardInterrupt
        /\ run.exit = 0 <=> run.error = NoError
        /\ run.exit = 1 => run.stderr = <<<<"banana-split: error:", run.error>>>>
        /\ run.exit = 0 => (ap.pc = "returned" /\ vresult = "ok")

\* The user interrupted a repository operation of a run that had created
\* its work branch, and main has returned
C24_Witness ==
    /\ run.pc = "exited"
    /\ run.exit = 130
    /\ \E i \in 1..Len(calls) : calls[i].op = "create_branch" /\ calls[i].result = "ok"

\* ---------------------------------------------------------------------
\* The git helper (git_adapter.py _run_git)
\* ---------------------------------------------------------------------

\* The argument lists _run_git is called with
GitCommands ==
    {<<"status">>, <<"status", "--porcelain">>, <<"rev-parse", "HEAD">>,
     <<"apply", "--index">>, <<"commit", "-m", "Atomic change">>,
     <<"checkout", "feature/start">>}

\* The exit statuses of git
ReturnCodes == {0, 1, 128}

\* What git writes on its standard error
StderrTexts == {"", "fatal: not a git repository", "error: patch does not apply"}

\* The OSError of subprocess.run, None when git could be started
OSErrors == {None, "No such file or directory: 'git'"}

\* The message parts of the GitError _run_git raises, NoError when it
\* returns the completed process
RunGitRaises(args, oserror, returncode, stderr) ==
    IF oserror # None
    THEN GitError(<<<<"failed to execute git:">>, <<oserror>>>>)
    ELSE IF returncode # 0
    THEN GitError(<<<<"git command failed:">>, <<"git">> \o args>>)
    ELSE NoError

\* _run_git(args) is about to be called; the process will end with a
\* return code and a text on stderr, or cannot be started
InitGit ==
    /\ diff = [base_commit |-> BaseId, target_commit |-> TargetId, files |-> <<>>]
    /\ commits = <<>>
    /\ supplied = <<>>
    /\ vresult = "idle"
    /\ checked = FALSE
    /\ atomized = FALSE
    /\ atoms = <<>>
    /\ IdleApply
    /\ IdleTopo
    /\ IdleRoundTrip
    /\ IdleRun
    /\ \E args \in GitCommands : \E rc \in ReturnCodes :
       \E text \in StderrTexts : \E oe \in OSErrors :
           git = [called |-> FALSE, args |-> args, returncode |-> rc, stderr |-> text,
                  oserror |-> oe, raised |-> NoError, completed |-> FALSE]

\* _run_git(args)
RunGit ==
    /\ ~git.called
    /\ git' = [git EXCEPT
                 !.called = TRUE,
                 !.raised = RunGitRaises(git.args, git.oserror, git.returncode, git.stderr),
                 !.completed = (RunGitRaises(git.args, git.oserror, git.returncode,
                                             git.stderr) = NoError)]
    /\ UNCHANGED <<topo, reparsed, run, rendered>>
    /\ UNCHANGED planVars
    /\ UNCHANGED atomVars
    /\ UNCHANGED applyVars

NextGit == RunGit

SpecGit == InitGit /\ [][NextGit]_vars

\* A part of the message of the error raised is the given text
MessageHas(text) == \E i \in 1..Len(git.raised[2]) : git.raised[2][i] = text

\* git ran and exited with a non-zero status
GitFailed == git.called /\ git.oserror = None /\ git.returncode # 0

\* C23: when the git command exits with a non-zero status, the error
\* _run_git raises carries both the attempted command and the text git wrote
\* on its standard error.
C23_ErrorCarriesCommandAndStderr ==
    GitFailed =>
        /\ git.raised # NoError
        /\ git.raised[1] = "GitError"
        /\ MessageHas(<<"git">> \o git.args)
        /\ git.stderr # "" => MessageHas(<<git.stderr>>)

\* ---------------------------------------------------------------------
\* Further properties of the atomizer
\* ---------------------------------------------------------------------

\* The atomic changes made of the hunks of the file with the given path, as
\* positions of the output in output order
AtomsOfPath(path) ==
    SelectSeqBy([i \in 1..Len(atoms) |-> i],
                {i \in 1..Len(atoms) : HunkFile(diff, atoms[i].hunk_ids[1]) = path})

\* The number of atomic changes of the same file that start at an earlier
\* hunk of the file
LocalIndex(a) ==
    Cardinality({b \in 1..Len(atoms) :
                    /\ HunkFile(diff, atoms[b].hunk_ids[1]) = HunkFile(diff, atoms[a].hunk_ids[1])
                    /\ HunkOrder(diff, atoms[b].hunk_ids[1]) < HunkOrder(diff, atoms[a].hunk_ids[1])})

\* The hunk carries a symbol that names something
Named(hunk) == hunk.symbol \notin {None, "", " "}

\* The file has two hunks tagged with two different symbols
TwoSymbolFile(file) ==
    /\ Len(file.hunks) = 2
    /\ Named(file.hunks[1]) /\ Named(file.hunks[2])
    /\ file.hunks[1].symbol # file.hunks[2].symbol

\* C25: atomize_semantically gives each atomic change the id
\* <path>::ac<k>, k being the 0-based index of its group within its own
\* file, whatever the position of the change in the output; a file with two
\* hunks tagged with two different symbols yields exactly two atomic
\* changes of one hunk each, with the ids ac0 and ac1 in that order.
C25_LocalIds ==
    atomized =>
        /\ \A a \in 1..Len(atoms) :
              atoms[a].id = <<HunkFile(diff, atoms[a].hunk_ids[1]), "ac", LocalIndex(a)>>
        /\ \A f \in 1..Len(diff.files) :
              TwoSymbolFile(diff.files[f]) =>
                  LET of_file == AtomsOfPath(FilePath(diff.files[f]))
                  IN  /\ Len(of_file) = 2
                      /\ atoms[of_file[1]].hunk_ids = <<diff.files[f].hunks[1].id>>
                      /\ atoms[of_file[2]].hunk_ids = <<diff.files[f].hunks[2].id>>
                      /\ atoms[of_file[1]].id = <<FilePath(diff.files[f]), "ac", 0>>
                      /\ atoms[of_file[2]].id = <<FilePath(diff.files[f]), "ac", 1>>

\* The test file comes first in the Diff with two hunks of two symbols, and
\* its first group is not the first atomic change of the output
C25_Witness ==
    /\ atomized
    /\ Len(diff.files) = 2
    /\ FilePath(diff.files[1]) = TestPath
    /\ TwoSymbolFile(diff.files[1])
    /\ atoms[1].id[1] # TestPath
    /\ atoms[2].id = <<TestPath, "ac", 0>>

\* ---------------------------------------------------------------------
\* group_hunks on its own
\* ---------------------------------------------------------------------

\* group_hunks(diff)
GroupHunksCall ==
    /\ run.pc = "idle"
    /\ run' = [run EXCEPT !.pc = "grouped", !.atomic_changes = GroupHunks(diff)]
    /\ UNCHANGED <<topo, reparsed, git, rendered>>
    /\ UNCHANGED planVars
    /\ UNCHANGED atomVars
    /\ UNCHANGED applyVars

NextGroup == GroupHunksCall

SpecGroup == InitAtom /\ [][NextGroup]_vars

\* Every hunk id of the atomic changes group_hunks returned
GroupedHunkIds ==
    Flatten([a \in 1..Len(run.atomic_changes) |-> run.atomic_changes[a].hunk_ids])

\* The atomic changes that hold a hunk of the file
ChangesOfFile(file) ==
    {a \in 1..Len(run.atomic_changes) :
        Range(run.atomic_changes[a].hunk_ids) \cap Range(FileHunkIds(file)) # {}}

\* The symbol keys of the hunks of a file: the symbol, or None for a hunk
\* without one
SymbolKeys(file) ==
    {IF file.hunks[i].symbol \in {None, ""} THEN None ELSE file.hunks[i].symbol :
        i \in 1..Len(file.hunks)}

\* C26: group_hunks assigns every hunk of every file that has hunks to
\* exactly one atomic change: a file whose hunks share one symbol key (or
\* have none) yields one atomic change holding all its hunks in file order,
\* a file with k >= 2 distinct keys yields k atomic changes whose hunk lists
\* are disjoint and together cover the file.
C26_GroupHunksPartition ==
    run.pc = "grouped" =>
        /\ Range(GroupedHunkIds) \subseteq Range(AllHunkIds(diff))
        /\ \A f \in 1..Len(diff.files) :
              LET file == diff.files[f]
              IN  /\ \A hid \in Range(FileHunkIds(file)) : Occurrences(GroupedHunkIds, hid) = 1
                  /\ Cardinality(ChangesOfFile(file)) = Cardinality(SymbolKeys(file))
                  /\ Cardinality(SymbolKeys(file)) = 1 =>
                        \A a \in ChangesOfFile(file) :
                            run.atomic_changes[a].hunk_ids = FileHunkIds(file)
                  /\ \A a \in ChangesOfFile(file) :
                        Range(run.atomic_changes[a].hunk_ids) \subseteq Range(FileHunkIds(file))

\* A file of three hunks with two keys, the first key coming back after the
\* second, next to a file whose hunks share their key
C26_Witness ==
    /\ run.pc = "grouped"
    /\ \E f \in 1..Len(diff.files) :
          /\ Len(diff.files[f].hunks) = 3
          /\ Cardinality(SymbolKeys(diff.files[f])) = 2
          /\ diff.files[f].hunks[1].symbol = diff.files[f].hunks[3].symbol
    /\ Len(run.atomic_changes) = 2

\* ---------------------------------------------------------------------
\* Further properties of the validator
\* ---------------------------------------------------------------------

\* The smallest canonical (file order, then hunk order) index of the hunks
\* of a commit
MinCanonicalIndex(c) ==
    Min({i \in 1..Len(AllHunkIds(diff)) : AllHunkIds(diff)[i] \in Range(c.hunk_ids)})

RunKey(hunk) == IF hunk.symbol \in {None, "", " "} THEN None ELSE hunk.symbol

\* The number of maximal runs of consecutive hunks of one key in a file
RunCount(file) ==
    IF file.hunks = <<>> THEN 0
    ELSE 1 + Cardinality({i \in 2..Len(file.hunks) :
                             RunKey(file.hunks[i]) # RunKey(file.hunks[i - 1])})

\* The hunk ids are those of consecutive hunks of the file
Consecutive(file, hunk_ids) ==
    \E from \in 1..Len(file.hunks) :
        /\ from + Len(hunk_ids) - 1 <= Len(file.hunks)
        /\ hunk_ids = SubSeq(FileHunkIds(file), from, from + Len(hunk_ids) - 1)

\* C28: within each file the atomizer partitions the hunks, in order, into
\* maximal runs of consecutive hunks of one symbol key (no symbol being a
\* key of its own): a change of key always starts a new group, so the keys
\* A, B, A give three groups, not two.
C28_GroupsAreRuns ==
    atomized =>
        \A f \in 1..Len(diff.files) :
            /\ Len(AtomsOfPath(FilePath(diff.files[f]))) = RunCount(diff.files[f])
            /\ \A a \in 1..Len(atoms) :
                  HunkFile(diff, atoms[a].hunk_ids[1]) = FilePath(diff.files[f])
                      => Consecutive(diff.files[f], atoms[a].hunk_ids)

\* ---------------------------------------------------------------------
\* Further properties of _topological_sort and of the dependency edges
\* ---------------------------------------------------------------------

\* The groups not among the first k - 1 of the result whose predecessors
\* are all among them
ReadyAt(k) ==
    LET emitted == {topo.result[i].id : i \in 1..(k - 1)}
    IN  {n \in Range(topo.nodes) :
            /\ n.id \notin emitted
            /\ \A e \in InnerEdges : e[2] = n.id => e[1] \in emitted}

CrossFileEdges == {e \in BuildDependencies(diff) : e[1][1] # e[2][1]}

\* The output position of the atomic change with the given id
AtomAt(id) == CHOOSE i \in 1..Len(atoms) : atoms[i].id = id

\* C30: the source-before-test edges are, for each test-tagged group, one
\* edge from every non-test group sharing its normalized symbol; the module
\* key is used only when there is no such symbol-matched non-test group;
\* these edges never start at a test-tagged group and never point to a
\* non-test group.
C30_SourceBeforeTestEdges ==
    atomized =>
        /\ CrossFileEdges =
              {<<atoms[s].id, atoms[t].id>> :
                  <<s, t>> \in {p \in (1..Len(atoms)) \X (1..Len(atoms)) :
                                   IsTestAtom(atoms[p[2]]) /\ p[1] \in DependsOn(p[2])}}
        /\ \A e \in CrossFileEdges :
              /\ ~IsTestAtom(atoms[AtomAt(e[1])])
              /\ IsTestAtom(atoms[AtomAt(e[2])])

\* A test group is linked to the source group of its symbol and not to the
\* other group of the same module
C30_Witness ==
    /\ atomized
    /\ \E t, s, m \in 1..Len(atoms) :
          /\ IsTestAtom(atoms[t])
          /\ ~IsTestAtom(atoms[s]) /\ ~IsTestAtom(atoms[m])
          /\ TagValue(atoms[t], "symbol") # None
          /\ TagValue(atoms[s], "symbol") = TagValue(atoms[t], "symbol")
          /\ TagValue(atoms[m], "symbol") # TagValue(atoms[t], "symbol")
          /\ TagValue(atoms[m], "module") = TagValue(atoms[t], "module")
          /\ <<atoms[s].id, atoms[t].id>> \in CrossFileEdges
          /\ <<atoms[m].id, atoms[t].id>> \notin CrossFileEdges

----------------------------------------------------------------------------
(* parse_unified_diff called on its own (diff_parser.py:30-59): the raw    *)
(* texts handed to the parser                                             *)

\* The most hunks of the first section of a raw text
MaxParseHunks == 2

\* The metadata lines between the "diff --git" line and the "---" line, in
\* the orders a text can carry them
MarkerLines(old, path) ==
    LET new_file == <<<<"new file mode", "100644">>>>
        deleted == <<<<"deleted file mode", "100644">>>>
        rename == <<<<"rename from", old>>, <<"rename to", path>>>>
    IN  {<<>>, new_file, deleted, rename,
         rename \o new_file, new_file \o rename,
         rename \o deleted, deleted \o rename}

\* The bodies of a hunk: plain lines; lines followed by the no-newline
\* marker; an empty line, a line starting with no marker and a backslash
\* line that is not the marker; a removed line holding a form feed; an
\* added line of a file with CRLF line ends
HunkBodies ==
    {<<<<" ", "a = 1">>, <<"-", "b = 2">>, <<"+", "b = 3">>>>,
     <<<<"-", "b = 2">>, <<"\\", "No newline at end of file">>,
       <<"+", "b = 3">>, <<"\\", "No newline at end of file">>>>,
     <<<<"+", "b = 3">>, <<>>, <<"garbage">>, <<"\\ not the marker">>>>,
     <<<<"-", "a = 1\fb = 2">>, <<"+", "b = 3">>>>,
     <<<<"+", "b = 3\r">>>>}

\* The label of a "---" or "+++" line
Label(null, prefix, path) == IF null THEN <<"/dev/null">> ELSE <<prefix, path>>

\* A section of a raw text: its "diff --git" line, the metadata lines, the
\* "---" and "+++" lines unless the section has none, and its hunks
ParseSection(old, path, markers, labelled, old_null, new_null, bodies) ==
    <<<<"diff --git", <<"a/", old>>, <<"b/", path>>>>>>
    \o markers
    \o (IF labelled
        THEN <<<<"---", Label(old_null, "a/", old)>>, <<"+++", Label(new_null, "b/", path)>>>>
             \o Flatten([h \in 1..Len(bodies) |-> <<<<"@@", h - 1, None>>>> \o bodies[h]])
        ELSE <<>>)

\* What follows the first section: nothing; a section for the same path, as
\* git prints a file replaced by a symbolic link; a section for another file;
\* a "diff --git" line without paths followed by a hunk
SecondSections ==
    {<<>>,
     ParseSection(SourcePath, SourcePath, <<<<"new file mode", "120000">>>>,
                  TRUE, TRUE, FALSE, <<<<<<"+", "b = 3">>>>>>),
     ParseSection(TestPath, TestPath, <<>>, TRUE, FALSE, FALSE,
                  <<<<<<"-", "b = 2">>, <<"+", "b = 3">>>>>>),
     <<<<"diff --git">>, <<"@@", 0, None>>, <<"+", "b = 3">>>>}

\* The commit message `git show` prints before the first section
Preamble == <<<<"commit", TargetId>>, <<>>, <<"    Fix compute">>, <<>>>>

\* The raw texts handed to parse_unified_diff
InitParse ==
    /\ \E preamble \in BOOLEAN :
       \E old \in {SourcePath, OldName(SourcePath)} :
       \E markers \in MarkerLines(old, SourcePath) :
       \E labelled, old_null, new_null \in BOOLEAN :
       \E n \in 0..MaxParseHunks :
       \E bodies \in [1..n -> HunkBodies] :
       \E second \in SecondSections :
           /\ ~labelled => n = 0 /\ ~old_null /\ ~new_null
           /\ run = [pc |-> "idle", use_staged |-> FALSE, use_ai |-> FALSE,
                     raw |-> (IF preamble THEN Preamble ELSE <<>>)
                             \o ParseSection(old, SourcePath, markers, labelled,
                                             old_null, new_null, bodies)
                             \o second,
                     base |-> None, target |-> None, atomic_changes |-> <<>>,
                     error |-> NoError, exit |-> -1, stderr |-> <<>>]
    /\ diff = [base_commit |-> None, target_commit |-> None, files |-> <<>>]
    /\ commits = <<>>
    /\ supplied = <<>>
    /\ vresult = "idle"
    /\ checked = FALSE
    /\ atomized = FALSE
    /\ atoms = <<>>
    /\ IdleApply
    /\ IdleTopo /\ IdleRoundTrip /\ IdleGit

\* diff = parse_unified_diff(raw_diff)
ParseCall ==
    /\ run.pc = "idle"
    /\ diff' = ParseUnifiedDiff(run.raw)
    /\ run' = [run EXCEPT !.pc = "parsed"]
    /\ UNCHANGED <<commits, supplied, vresult, checked>>
    /\ UNCHANGED <<topo, reparsed, git, rendered>>
    /\ UNCHANGED atomVars
    /\ UNCHANGED applyVars

NextParse == ParseCall

SpecParse == InitParse /\ [][NextParse]_vars


----------------------------------------------------------------------------
(* render_partial_diff called on its own (diff_parser.py:315-366) *)

\* The most hunks of a file of the Diff handed to render_partial_diff
MaxRenderHunks == 2

\* The most hunk ids handed to render_partial_diff
MaxRenderIds == 2

\* The finite sequences of at most n elements of S
SeqsUpTo(S, n) == UNION {[1..k -> S] : k \in 0..n}

\* The Diffs handed to render_partial_diff: what parse_unified_diff made of
\* a text with sections for service.py and its test file, or one of them,
\* each modified, added, deleted or renamed with changes
InitRender ==
    /\ \E ps \in {<<>>, <<SourcePath>>, <<TestPath>>,
                  <<SourcePath, TestPath>>, <<TestPath, SourcePath>>} :
       \E ks \in [1..Len(ps) -> {kind \in SectionKinds : HasText(kind)}] :
       \E ns \in [1..Len(ps) -> 1..MaxRenderHunks] :
           diff = ParseUnifiedDiff(
                      Flatten([f \in 1..Len(ps) |-> RawSection(ps[f], ks[f], ns[f])]))
    /\ commits = <<>>
    /\ supplied = <<>>
    /\ vresult = "idle"
    /\ checked = FALSE
    /\ atomized = FALSE
    /\ atoms = <<>>
    /\ IdleApply
    /\ IdlePure

\* render_partial_diff(diff, hunk_ids), hunk_ids in any order, with
\* repetitions and with ids of no hunk
RenderCall ==
    /\ ~rendered.called
    /\ \E hunk_ids \in SeqsUpTo(Range(AllHunkIds(diff)) \cup {UnknownHunk}, MaxRenderIds) :
          rendered' = [called |-> TRUE, hunk_ids |-> hunk_ids,
                       text |-> PatchLines(RenderPartialDiff(diff, hunk_ids))]
    /\ UNCHANGED <<topo, reparsed, run, git>>
    /\ UNCHANGED planVars
    /\ UNCHANGED atomVars
    /\ UNCHANGED applyVars

NextRender == RenderCall

SpecRender == InitRender /\ [][NextRender]_vars

----------------------------------------------------------------------------
(* C31: precedence of the change-kind markers *)

\* The lines of the first section of the raw text, from its "diff --git"
\* line to the line before the next one
FirstSectionLines ==
    LET first == NextDiffHeader(run.raw, 1)
        next == NextDiffHeader(run.raw, first + 1)
    IN  SubSeq(run.raw, first, next - 1)

\* The metadata lines of the first section: those before its "---" line
FirstSectionMarkers ==
    LET ls == FirstSectionLines
        stops == {i \in 2..Len(ls) : StartsWith(ls[i], "---")}
        last == IF stops = {} THEN Len(ls) ELSE Min(stops) - 1
    IN  {ls[i] : i \in 2..last}

\* The first section carries a metadata line with the prefix
CarriesMarker(prefix) == \E line \in FirstSectionMarkers : StartsWith(line, prefix)

\* The first section carries the "---" or "+++" line naming the null device
NullDeviceHeader(prefix) ==
    \E i \in 1..Len(FirstSectionLines) : FirstSectionLines[i] = <<prefix, <<"/dev/null">>>>

\* The change kind the stated precedence gives the first section
KindByPrecedence ==
    IF CarriesMarker("rename from") \/ CarriesMarker("rename to") THEN "rename"
    ELSE IF CarriesMarker("new file mode") THEN "add"
    ELSE IF CarriesMarker("deleted file mode") THEN "delete"
    ELSE IF NullDeviceHeader("---") THEN "add"
    ELSE IF NullDeviceHeader("+++") THEN "delete"
    ELSE "modify"

\* C31: the parser classifies each file section by the precedence: explicit
\* rename markers, then the new-file and deleted-file markers, then a null
\* device on the "---" or "+++" line, then modify.  A section carrying
\* rename markers is a rename whatever else it contains, and a new-file or
\* deleted-file marker wins over a contradicting null-device header.
C31_ChangeKindPrecedence ==
    (run.pc = "parsed" /\ ~(NullDeviceHeader("---") /\ NullDeviceHeader("+++")))
        => diff.files[1].change_type = KindByPrecedence

----------------------------------------------------------------------------
(* C32: hunk ids *)

\* C32: parse_unified_diff gives the i-th hunk (from 0) of each file section
\* the id "<path>::h<i>", the path being the section's new path, or its old
\* path when there is no new path, and all the hunk ids of the returned Diff
\* are pairwise distinct.
C32_HunkIdsDistinct ==
    run.pc = "parsed" =>
        /\ \A f \in 1..Len(diff.files) : \A i \in 1..Len(diff.files[f].hunks) :
              diff.files[f].hunks[i].id =
                  HunkId(OrElse(diff.files[f].path_new, diff.files[f].path_old), i - 1)
        /\ \A a, b \in 1..Len(AllHunkIds(diff)) :
              a # b => AllHunkIds(diff)[a] # AllHunkIds(diff)[b]

----------------------------------------------------------------------------
(* C33: the parser is total and keeps the hunk lines *)

\* The indices of the "@@" lines of the first section, ascending
FirstSectionHunkStarts ==
    SelectSeq([i \in 1..Len(FirstSectionLines) |-> i],
              LAMBDA i : StartsWith(FirstSectionLines[i], "@@"))

\* The source lines of the h-th hunk of the first section: those after its
\* "@@" line and before the next one
SourceBody(h) ==
    LET starts == FirstSectionHunkStarts
        stop == IF h < Len(starts) THEN starts[h + 1] ELSE Len(FirstSectionLines) + 1
    IN  SubSeq(FirstSectionLines, starts[h] + 1, stop - 1)

\* The line the statement requires for one source line of a hunk: none for
\* the no-newline marker, a context line holding the whole line when the
\* line starts with no marker, else the marker and the rest of the line
StatedLines(line) ==
    IF IsNoNewlineMarker(line) THEN <<>>
    ELSE IF line = <<>> THEN <<[line_type |-> " ", content |-> ""]>>
    ELSE IF line[1] \in {"+", "-", " "}
    THEN <<[line_type |-> line[1], content |-> line[2]]>>
    ELSE <<[line_type |-> " ", content |-> WholeLine(line)]>>

\* C33: parse_unified_diff fails on no input text: text before the first
\* "diff --git" line is skipped; a hunk line starting with none of "+", "-"
\* and " " becomes a context line whose content is the whole line; the
\* no-newline marker produces no line; every other hunk line becomes a line
\* whose kind is its marker and whose content is the source line with only
\* the marker removed.
C33_HunkLinesVerbatim ==
    run.pc = "parsed" =>
        /\ Len(diff.files) =
              Cardinality({i \in 1..Len(run.raw) :
                              StartsWith(run.raw[i], "diff --git") /\ Len(run.raw[i]) >= 3})
        /\ Len(diff.files[1].hunks) = Len(FirstSectionHunkStarts)
        /\ \A h \in 1..Len(diff.files[1].hunks) :
              diff.files[1].hunks[h].lines =
                  Flatten([k \in 1..Len(SourceBody(h)) |-> StatedLines(SourceBody(h)[k])])

----------------------------------------------------------------------------
(* C34: render_partial_diff *)

\* The hunks of the Diff in canonical order: file order, then hunk order
CanonicalHunks == Flatten([f \in 1..Len(diff.files) |-> diff.files[f].hunks])

\* The hunks whose id is among the ids handed to render_partial_diff
RequestedHunks ==
    SelectSeq(CanonicalHunks, LAMBDA h : h.id \in Range(rendered.hunk_ids))

\* The files with at least one requested hunk, in file order
RequestedFiles ==
    SelectSeq(diff.files,
              LAMBDA file : \E i \in 1..Len(file.hunks) :
                                file.hunks[i].id \in Range(rendered.hunk_ids))

\* The lines of the rendered text starting with the prefix, in order
TextLines(prefix) == SelectSeq(rendered.text, LAMBDA line : line[1] = prefix)

\* The rendered text without its file header lines
TextHunkLines ==
    SelectSeq(rendered.text, LAMBDA line : line[1] \notin {"diff --git", "---", "+++"})

\* C34: render_partial_diff emits exactly the hunks whose id is in the
\* given collection, each once and in canonical order, whatever the order
\* and the repetitions of the ids; a file with no selected hunk contributes
\* no header and ids of no hunk are ignored, so that an empty or unmatched
\* selection gives the empty string; an add-kind file gets "/dev/null" as
\* its old header and a delete-kind file as its new header; the hunk
\* headers and lines are emitted unchanged.
C34_RenderSelected ==
    rendered.called =>
        /\ TextHunkLines =
              Flatten([h \in 1..Len(RequestedHunks) |->
                  <<RequestedHunks[h].header>>
                  \o [k \in 1..Len(RequestedHunks[h].lines) |->
                        <<RequestedHunks[h].lines[k].line_type,
                          RequestedHunks[h].lines[k].content>>]])
        /\ Len(TextLines("diff --git")) = Len(RequestedFiles)
        /\ Len(TextLines("---")) = Len(RequestedFiles)
        /\ Len(TextLines("+++")) = Len(RequestedFiles)
        /\ \A k \in 1..Len(RequestedFiles) :
              /\ TextLines("---")[k][2] = <<"/dev/null">>
                    <=> RequestedFiles[k].change_type = "add"
              /\ TextLines("+++")[k][2] = <<"/dev/null">>
                    <=> RequestedFiles[k].change_type = "delete"
        /\ RequestedHunks = <<>> => rendered.text = <<>>

\* Two hunks of an add-kind file requested against the canonical order,
\* another file of the Diff left out
C34_Witness ==
    /\ rendered.called
    /\ Len(rendered.hunk_ids) = 2
    /\ rendered.hunk_ids[1] # rendered.hunk_ids[2]
    /\ Len(RequestedHunks) = 2
    /\ RequestedHunks[1].id = rendered.hunk_ids[2]
    /\ RequestedHunks[2].id = rendered.hunk_ids[1]
    /\ RequestedFiles[1].change_type = "add"
    /\ Len(RequestedFiles) < Len(diff.files)

----------------------------------------------------------------------------
(* C35: the default pipeline and its own plan *)

\* C35: the default pipeline never rejects its own plan: for every parsed
\* Diff, the atomic changes of group_hunks turned into one commit each pass
\* _validate_and_order_plan, whatever the sequence of the hunks' symbols.
C35_DefaultPlanAccepted ==
    ~run.use_ai => vresult \in {"idle", "pending", "ok"}

----------------------------------------------------------------------------
(* C36, C37: how the validator fails *)

\* C36: _validate_and_order_plan has two outcomes for any plan, it returns
\* or it fails with a plan-validation error; a plan in which one commit has
\* an empty hunk list while the other commits cover the Diff exactly once
\* does not make it fail with another kind of error.
C36_TwoOutcomes ==
    vresult \in {"pending", "ok", "unknown_hunk", "not_covered", "multiple_commits",
                 "reorders"}

\* C37: when _validate_and_order_plan fails, plan.suggested_commits holds
\* the same commits in the same order as before the call, for every
\* rejection cause, the per-file order violation included.
C37_FailureLeavesPlan ==
    vresult \notin {"pending", "ok"} => commits = supplied

----------------------------------------------------------------------------
(* C38: the dependency graph has no cycle *)

\* The files of the Diff have pairwise distinct, non-empty paths
DistinctPaths ==
    /\ \A f \in 1..Len(diff.files) : FilePath(diff.files[f]) \notin {None, ""}
    /\ \A f, g \in 1..Len(diff.files) :
          f # g => FilePath(diff.files[f]) # FilePath(diff.files[g])

\* C38: for every Diff whose files have pairwise distinct non-empty paths
\* the graph _build_dependencies makes is acyclic, so that the topological
\* pass emits every node and the first_order fallback is never taken.
C38_DependenciesAcyclic ==
    (atomized /\ DistinctPaths) =>
        /\ Acyclic(BuildDependencies(diff))
        /\ Len(TopoOrderedIds(BuildNodes(diff), BuildDependencies(diff)))
              = Len(BuildNodes(diff))

\* A test file of two groups after a source file, with an edge inside the
\* test file and an edge from the source group to a test group
C38_Witness ==
    /\ atomized /\ DistinctPaths
    /\ \E e, x \in BuildDependencies(diff) :
          /\ e[1][1] = TestPath /\ e[2][1] = TestPath
          /\ x[1][1] # TestPath /\ x[2][1] = TestPath

----------------------------------------------------------------------------
(* C39: what the preflight lets through *)

\* C39: whenever validate_runtime_support accepts a Diff in a run that is
\* no dry run, every file of the Diff has at least one hunk.
C39_AcceptedFilesHaveHunks ==
    (run.pc = "group" /\ ~dry_run) =>
        \A f \in 1..Len(diff.files) : diff.files[f].hunks # <<>>

====
